---- MODULE Spec2Model ----
(***************************************************************************)
(* A model of keev's request routing and dispatch core:                    *)
(*   keev/routing.py      Route, Router                                    *)
(*   keev/application.py  Application (per-connection HTTP handling)       *)
(*   keev/responses.py    Response, JSONResponse, StreamingResponse        *)
(*   keev/exceptions.py   HTTPException and its subclasses                 *)
(*   keev/plugins.py      PluginManager, SecurityPlugin                    *)
(*   keev/requests.py     Request (body)                                   *)
(*   keev/middleware.py   CORSMiddleware                                   *)
(*   keev/websocket.py    WebSocket, WebSocketPool                         *)
(*                                                                         *)
(* Text is modelled as sequences of one-character strings so that the      *)
(* converters (int, float, bool, str) are computed, not assumed.  A path   *)
(* is its sequence of non-empty segments plus the number of trailing       *)
(* slashes: "/items/123" is [segs |-> <<items, "123">>, slashes |-> 0] and *)
(* "/" is [segs |-> <<>>, slashes |-> 1].                                  *)
(***************************************************************************)
EXTENDS Integers, Sequences, FiniteSets, TLC

\* ------------------------------------------------------------------ bounds
MaxRoutes == 2
MaxInclude == 1
MaxMiddleware == 2
MaxPlugins == 2
MaxChunks == 2
MaxHandlers == 2
MaxTime == 3
MaxCalls == 4
MaxRequests == 2
MaxWindow == 2

\* -------------------------------------------------------------------- text
None == "None"

Range(s) == {s[i] : i \in 1..Len(s)}

Reverse(s) == [i \in 1..Len(s) |-> s[Len(s) + 1 - i]]

Digits == {"0", "1", "2", "3", "4", "5", "6", "7", "8", "9"}

DigitVal(c) ==
  CASE c = "0" -> 0 [] c = "1" -> 1 [] c = "2" -> 2 [] c = "3" -> 3
    [] c = "4" -> 4 [] c = "5" -> 5 [] c = "6" -> 6 [] c = "7" -> 7
    [] c = "8" -> 8 [] c = "9" -> 9

RECURSIVE DigitsVal(_)
DigitsVal(s) ==
  IF s = <<>> THEN 0
  ELSE 10 * DigitsVal(SubSeq(s, 1, Len(s) - 1)) + DigitVal(s[Len(s)])

\* str.lower() on the characters the model uses
Lower(c) ==
  CASE c = "T" -> "t" [] c = "R" -> "r" [] c = "U" -> "u" [] c = "E" -> "e"
    [] OTHER -> c

LowerStr(s) == [i \in 1..Len(s) |-> Lower(s[i])]

Unsigned(s) == IF s # <<>> /\ s[1] \in {"+", "-"} THEN Tail(s) ELSE s

Sign(s) == IF s # <<>> /\ s[1] = "-" THEN -1 ELSE 1

\* int(x): an optional sign and one or more decimal digits; anything else is
\* a ValueError (ok = FALSE)
IntConv(s) ==
  LET d == Unsigned(s)
  IN IF d # <<>> /\ \A i \in 1..Len(d) : d[i] \in Digits
     THEN [ok |-> TRUE, v |-> [t |-> "int", v |-> <<Sign(s) * DigitsVal(d)>>]]
     ELSE [ok |-> FALSE, v |-> [t |-> "int", v |-> <<>>]]

RECURSIVE StripZeros(_)
StripZeros(s) ==
  IF s # <<>> /\ s[Len(s)] = "0" THEN StripZeros(SubSeq(s, 1, Len(s) - 1)) ELSE s

\* float(x): an optional sign, digits with at most one ".", at least one
\* digit.  The value is kept exactly as <<signed digits, number of fraction
\* digits>> with the fraction's trailing zeros dropped, so "1.50" = "1.5".
FloatConv(s) ==
  LET d == Unsigned(s)
      dots == {i \in 1..Len(d) : d[i] = "."}
      dot == IF dots = {} THEN Len(d) + 1 ELSE CHOOSE i \in dots : TRUE
      whole == SubSeq(d, 1, dot - 1)
      frac == StripZeros(SubSeq(d, dot + 1, Len(d)))
  IN IF /\ Cardinality(dots) <= 1
        /\ \A i \in 1..Len(d) : d[i] \in Digits \cup {"."}
        /\ Len(d) - Cardinality(dots) >= 1
     THEN [ok |-> TRUE,
           v |-> [t |-> "float", v |-> <<Sign(s) * DigitsVal(whole \o frac), Len(frac)>>]]
     ELSE [ok |-> FALSE, v |-> [t |-> "float", v |-> <<>>]]

\* lambda x: x.lower() == "true"
BoolConv(s) ==
  [ok |-> TRUE, v |-> [t |-> "bool", v |-> <<LowerStr(s) = <<"t", "r", "u", "e">> >>]]

StrConv(s) == [ok |-> TRUE, v |-> [t |-> "str", v |-> s]]

\* the converter Route._compile stores for a declared type
ConverterFor(type) ==
  CASE type = "int" -> "int"
    [] type = "float" -> "float"
    [] type = "bool" -> "bool"
    [] OTHER -> "str"

Convert(conv, s) ==
  CASE conv = "int" -> IntConv(s)
    [] conv = "float" -> FloatConv(s)
    [] conv = "bool" -> BoolConv(s)
    [] OTHER -> StrConv(s)

\* ------------------------------------------------------------ path text
items == <<"i", "t", "e", "m", "s">>

api == <<"a", "p", "i">>

Lit(text) == [kind |-> "lit", text |-> text]

\* a "{name}" or "{name:type}" placeholder of a path pattern
Param(name) == [kind |-> "ph", text |-> name]

Path(segs, slashes) == [segs |-> segs, slashes |-> slashes]

\* ---------------------------------------------------------------- handlers
\* The signatures of the handler functions registered in the model, in
\* declaration order; type "empty" is a parameter without annotation.
HandlerSig(h) ==
  CASE h = "home" -> <<>>
    [] h = "get_item" -> <<[name |-> "item_id", type |-> "int"]>>
    [] h = "get_price" -> <<[name |-> "item_id", type |-> "float"]>>
    [] h = "get_flag" -> <<[name |-> "item_id", type |-> "bool"]>>
    [] h = "get_by_name" -> <<[name |-> "item_id", type |-> "empty"]>>
    [] h = "create_item" -> <<[name |-> "item", type |-> "Item"]>>
    [] h = "create_raw_item" -> <<[name |-> "ctx", type |-> "RequestContext"]>>
    [] h = "ping" -> <<>>
    [] h = "get_owned" -> <<[name |-> "item_id", type |-> "int"],
                            [name |-> "user", type |-> "empty"]>>

\* the parameters a handler declares with a default value: get_owned's
\* "user=Depends(get_user)"
Defaults(h) == IF h = "get_owned" THEN "user" :> "by_user" ELSE <<>>

\* RateLimit(requests, window)
RateLimit(n, w) == [requests |-> n, window |-> w]

\* rate_limit=None
NoRateLimit == RateLimit(0, 0)

\* the class RateLimit itself, where an instance is expected: it has neither
\* a requests nor a window attribute
RateLimitClass == RateLimit(-1, -1)

\* the dependencies= and rate_limit= arguments of the decorator a handler is
\* declared under
Decorated(h) ==
  CASE h = "ping" -> [dependencies |-> <<>>, rate_limit |-> RateLimit(1, 1)]
    [] h = "get_owned" -> [dependencies |-> <<"by_db">>, rate_limit |-> NoRateLimit]
    [] OTHER -> [dependencies |-> <<>>, rate_limit |-> NoRateLimit]

Names(pt) == {pt[i].name : i \in 1..Len(pt)}

RECURSIVE SelectSeq2(_, _)
SelectSeq2(s, keep) ==
  IF s = <<>> THEN <<>>
  ELSE IF Head(s) \in keep THEN <<Head(s)>> \o SelectSeq2(Tail(s), keep)
  ELSE SelectSeq2(Tail(s), keep)

\* param_types as Router.route() derives it from the handler's signature
SignatureParamTypes(h) ==
  LET sig == HandlerSig(h)
      typed == [i \in 1..Len(sig) |->
                  [name |-> sig[i].name,
                   type |-> IF sig[i].type = "empty" THEN "str" ELSE sig[i].type]]
  IN SelectSeq2(typed, {e \in Range(typed) : e.name \notin {"request", "ctx"}})

\* ------------------------------------------------------------------- Route
\* Route._compile: every placeholder whose name is in param_types becomes a
\* named group with the converter of its type; the pattern is anchored and
\* accepts one optional trailing slash
Compile(path, param_types) ==
  [regex |->
     [segs |-> [i \in 1..Len(path.segs) |->
                  IF path.segs[i].kind = "ph" /\ path.segs[i].text \in Names(param_types)
                  THEN [kind |-> "group", text |-> path.segs[i].text]
                  ELSE path.segs[i]],
      slashes |-> path.slashes],
   converters |->
     [n \in Names(param_types) |->
        ConverterFor((CHOOSE e \in Range(param_types) : e.name = n).type)]]

\* Route.__init__: param_types is completed from the handler's type hints
NewRoute(path, handler, methods, param_types, dependencies, rate_limit) ==
  LET sig == HandlerSig(handler)
      hints == SelectSeq2(sig, {e \in Range(sig) :
                                  /\ e.type # "empty"
                                  /\ e.name \notin {"request", "ctx"}
                                  /\ e.name \notin Names(param_types)})
      pt == param_types \o hints
      c == Compile(path, pt)
  IN [path |-> path, handler |-> handler, methods |-> methods, param_types |-> pt,
      dependencies |-> dependencies, rate_limit |-> rate_limit,
      regex |-> c.regex, converters |-> c.converters]

NoMatch == [matched |-> FALSE, params |-> <<>>]

\* one segment of the compiled pattern against one path segment; a left-over
\* placeholder is literal brace text, which no modelled path segment contains
SegMatches(rseg, seg) ==
  CASE rseg.kind = "lit" -> rseg.text = seg
    [] rseg.kind = "group" -> seg # <<>>
    [] OTHER -> FALSE

\* self._compiled_regex.match(path): "^" pattern "/?$"
RegexMatch(rx, path) ==
  /\ Len(rx.segs) = Len(path.segs)
  /\ path.slashes \in {rx.slashes, rx.slashes + 1}
  /\ \A i \in 1..Len(rx.segs) : SegMatches(rx.segs[i], path.segs[i])

\* match.groupdict(): group name -> captured segment
GroupDict(rx, path) ==
  LET groups == {i \in 1..Len(rx.segs) : rx.segs[i].kind = "group"}
  IN [n \in {rx.segs[i].text : i \in groups} |->
        path.segs[CHOOSE i \in groups : rx.segs[i].text = n]]

\* Variant of Match without the try/except around the converter: the
\* captured text is kept when it does not convert.
Match_raw(route, path) ==
  LET captured == GroupDict(route.regex, path)
      conv(n) == Convert(route.converters[n], captured[n])
  IN IF ~RegexMatch(route.regex, path) THEN NoMatch
     ELSE [matched |-> TRUE,
           params |-> [n \in DOMAIN captured |->
                         IF conv(n).ok THEN conv(n).v ELSE StrConv(captured[n]).v]]

\* Route.match: None (NoMatch) or the dict of converted parameters; a
\* converter's ValueError makes it None
Match(route, path) ==
  LET captured == GroupDict(route.regex, path)
      conv(n) == Convert(route.converters[n], captured[n])
  IN IF ~RegexMatch(route.regex, path) THEN NoMatch
     ELSE IF \E n \in DOMAIN captured : ~conv(n).ok THEN NoMatch
     ELSE [matched |-> TRUE, params |-> [n \in DOMAIN captured |-> conv(n).v]]

\* Python truthiness of match()'s result: None and the empty dict are falsy
Truthy(m) == m.matched /\ DOMAIN m.params # {}

\* ------------------------------------------------------------------ Router
EmptyRouter == [routes |-> <<>>, method_routes |-> <<>>]

RECURSIVE IndexMethods(_, _, _)
IndexMethods(mr, methods, idx) ==
  IF methods = <<>> THEN mr
  ELSE LET m == Head(methods)
           cur == IF m \in DOMAIN mr THEN mr[m] ELSE <<>>
       IN IndexMethods([k \in DOMAIN mr \cup {m} |->
                          IF k = m THEN Append(cur, idx) ELSE mr[k]],
                       Tail(methods), idx)

\* Router.add_route; the method index holds references to the routes in the
\* route list, modelled as their positions
add_route(router, r) ==
  [routes |-> Append(router.routes, r),
   method_routes |-> IndexMethods(router.method_routes, r.methods, Len(router.routes) + 1)]

Upper(m) ==
  CASE m = "get" -> "GET" [] m = "post" -> "POST" [] m = "delete" -> "DELETE"
    [] OTHER -> m

\* Router._build_path for a router without version: "/" + the non-empty
\* parts among prefix.strip("/") and path.lstrip("/")
build_path(prefix, path) ==
  IF path.segs = <<>>
  THEN Path([i \in 1..Len(prefix) |-> Lit(prefix[i])], IF prefix = <<>> THEN 1 ELSE 0)
  ELSE Path([i \in 1..Len(prefix) |-> Lit(prefix[i])] \o path.segs, path.slashes)

\* Router.route(path, methods)(handler)
route(router, prefix, path, methods, handler) ==
  add_route(router,
            NewRoute(build_path(prefix, path), handler,
                     [i \in 1..Len(methods) |-> Upper(methods[i])],
                     SignatureParamTypes(handler),
                     Decorated(handler).dependencies, Decorated(handler).rate_limit))

\* Router.include_router: prefix.rstrip("/") + "/" + route.path.lstrip("/")
IncludedPath(prefix, path) ==
  Path([i \in 1..Len(prefix) |-> Lit(prefix[i])] \o path.segs,
       IF path.segs = <<>> THEN 1 ELSE path.slashes)

RECURSIVE include_router(_, _, _)
include_router(router, subroutes, prefix) ==
  IF subroutes = <<>> THEN router
  ELSE LET r == Head(subroutes)
       IN include_router(
            add_route(router, NewRoute(IncludedPath(prefix, r.path), r.handler,
                                       r.methods, r.param_types, r.dependencies,
                                       RateLimitClass)),
            Tail(subroutes), prefix)

\* -------------------------------------------------------------- exceptions
\* str(e) of an exception built with at most one positional argument
Str(e) == IF e.args = <<>> THEN "" ELSE e.args[1]

\* HTTPException.__init__; args is what the raise site passed to the class
HTTPException(cls, args, status_code, detail, headers) ==
  [cls |-> cls, http |-> TRUE, args |-> args, status_code |-> status_code,
   detail |-> IF detail \in {None, ""} THEN "An error occurred" ELSE detail,
   headers |-> headers]

ValidationError(args) ==
  HTTPException("ValidationError", args, 422,
                IF args = <<>> THEN "Validation error" ELSE args[1], <<>>)

Forbidden(args) ==
  HTTPException("Forbidden", args, 403, IF args = <<>> THEN "Forbidden" ELSE args[1], <<>>)

Unauthorized(args) ==
  HTTPException("Unauthorized", args, 401,
                IF args = <<>> THEN "Unauthorized" ELSE args[1],
                "WWW-Authenticate" :> "Bearer")

InternalServerError(args) ==
  HTTPException("InternalServerError", args, 500,
                IF args = <<>> THEN "Internal Server Error" ELSE args[1], <<>>)

\* an exception that is not an HTTPException
PyException(cls, args) ==
  [cls |-> cls, http |-> FALSE, args |-> args, status_code |-> 0, detail |-> "",
   headers |-> <<>>]

NoException == PyException("", <<>>)

\* --------------------------------------------------------------- responses
\* key.lower() on the header names the model uses
LowerName(k) ==
  CASE k = "Allow" -> "allow"
    [] k = "WWW-Authenticate" -> "www-authenticate"
    [] k = "Retry-After" -> "retry-after"
    [] k = "X-Order" -> "x-order"
    [] k = "X-Content-Type-Options" -> "x-content-type-options"
    [] k = "X-Frame-Options" -> "x-frame-options"
    [] k = "X-XSS-Protection" -> "x-xss-protection"
    [] k = "Strict-Transport-Security" -> "strict-transport-security"
    [] k = "Content-Security-Policy" -> "content-security-policy"
    [] OTHER -> k

LowerKeys(h) ==
  [k \in {LowerName(x) : x \in DOMAIN h} |-> h[CHOOSE x \in DOMAIN h : LowerName(x) = k]]

\* Response.__init__: the default content-type first, then the custom
\* headers under lower-cased keys
Response(cls, content, status_code, headers, media_type) ==
  [cls |-> cls, content |-> content, status_code |-> status_code,
   headers |-> LowerKeys(headers) @@ ("content-type" :> media_type)]

JSONResponse(content, status_code, headers) ==
  Response("JSONResponse", content, status_code, headers, "application/json")

StreamingResponse(content, status_code, headers) ==
  Response("StreamingResponse", content, status_code, headers, "text/plain")

\* Response.add_header
add_header(resp, key, value) ==
  [resp EXCEPT !.headers = (LowerName(key) :> value) @@ resp.headers]

\* JSON content: the value and whether orjson can serialise it
Json(value) == [v |-> value, encodable |-> TRUE]

NoResponse == Response("", Json(<<>>), 0, <<>>, "")

\* ----------------------------------------------------------------- request
\* Request._body: None until the body is read, then the bytes read
NoBody == <<>>

Cached(bytes) == <<bytes>>

\* Request.__init__: nothing is read, path_params is not set yet
NewRequest(method, path) ==
  [method |-> method, path |-> path, body |-> NoBody, path_params |-> NoMatch]

\* what receive() returns once the transport has delivered its messages: an
\* http.disconnect message, which has neither a body nor a more_body key
Disconnect == [body |-> <<>>, more_body |-> FALSE]

\* the while loop of Request.body: receive() until a message without
\* more_body, the bodies concatenated in order; n receive() calls were made
\* before
RECURSIVE ReadBody(_, _, _)
ReadBody(acc, msgs, n) ==
  LET message == IF n < Len(msgs) THEN msgs[n + 1] ELSE Disconnect
  IN IF message.more_body THEN ReadBody(acc \o message.body, msgs, n + 1)
     ELSE [bytes |-> acc \o message.body, received |-> n + 1]

\* Variant of body that reads the transport on every call.
body_uncached(request, msgs, n) ==
  LET r == ReadBody(<<>>, msgs, n)
  IN [request |-> [request EXCEPT !.body = Cached(r.bytes)], value |-> r.bytes,
      received |-> r.received]

\* Request.body: the request as the call leaves it, the bytes returned and
\* the number of receive() calls made so far
body(request, msgs, n) ==
  IF request.body = NoBody
  THEN LET r == ReadBody(<<>>, msgs, n)
       IN [request |-> [request EXCEPT !.body = Cached(r.bytes)], value |-> r.bytes,
           received |-> r.received]
  ELSE [request |-> request, value |-> request.body[1], received |-> n]

\* json.loads on the body bytes the transport delivers
JsonLoads(bytes) ==
  IF bytes = "not_json" THEN [ok |-> FALSE, v |-> "Expecting value"]
  ELSE [ok |-> TRUE, v |-> bytes]

\* Item.model_validate on a parsed body
ModelValidate(parsed) ==
  IF parsed = "item_json" THEN [ok |-> TRUE, v |-> [t |-> "Item", v |-> <<parsed>>]]
  ELSE [ok |-> FALSE, v |-> "validation error for Item"]

\* Router._extract_body_params: request.json() reads and caches the body;
\* any failure is re-raised as ValidationError(str(e))
extract_body_params(request, bytes) ==
  LET req == IF request.body = NoBody THEN [request EXCEPT !.body = Cached(bytes)]
             ELSE request
      parsed == JsonLoads(req.body[1])
      model == ModelValidate(parsed.v)
  IN IF ~parsed.ok THEN [ok |-> FALSE, request |-> req, v |-> ValidationError(<<parsed.v>>)]
     ELSE IF ~model.ok THEN [ok |-> FALSE, request |-> req, v |-> ValidationError(<<model.v>>)]
     ELSE [ok |-> TRUE, request |-> req, v |-> model.v]

\* ----------------------------------------------------------------- Depends
\* The Depends objects of the model and the callable each wraps: by_user and
\* by_user_again wrap the same callable, by_db is the default of get_user's
\* parameter db.
Wrappers == {"by_user", "by_user_again", "by_db"}

\* Depends.__init__: self.dependency
Dependency(w) == IF w = "by_db" THEN "get_db" ELSE "get_user"

\* the signatures of the dependency callables: get_user(request,
\* db=Depends(get_db)) and get_db()
DependencySig(f) ==
  IF f = "get_user"
  THEN <<[name |-> "request", default |-> None], [name |-> "db", default |-> "by_db"]>>
  ELSE <<>>

\* the Request object as a dependency sees it
RequestRef(request) == [t |-> "Request", method |-> request.method, path |-> request.path]

\* what a dependency callable returns: a value made from what it was given
DependencyResult(f, kwargs) == [by |-> f, kwargs |-> kwargs]

\* one Depends.__call__ as the exchange sees it
Resolution(w, invoked, value) ==
  [wrapper |-> w, dependency |-> Dependency(w), invoked |-> invoked, value |-> value]

\* Depends.__call__(request): the cached value if self.dependency is in
\* self._cache; else the keyword arguments are built (the request, and every
\* parameter whose default is a Depends object, awaited in turn), the callable
\* is called and its result stored in self._cache.  caches maps every Depends
\* object to its _cache.
RECURSIVE depends_call(_, _, _)
RECURSIVE BindDependencies(_, _, _, _)
BindDependencies(sig, request, caches, kwargs) ==
  IF sig = <<>> THEN [kwargs |-> kwargs, caches |-> caches, calls |-> <<>>]
  ELSE IF Head(sig).name = "request"
  THEN BindDependencies(Tail(sig), request, caches,
                        (Head(sig).name :> RequestRef(request)) @@ kwargs)
  ELSE IF Head(sig).default \in Wrappers
  THEN LET d == depends_call(Head(sig).default, request, caches)
           rest == BindDependencies(Tail(sig), request, d.caches,
                                    (Head(sig).name :> d.value) @@ kwargs)
       IN [rest EXCEPT !.calls = d.calls \o @]
  ELSE BindDependencies(Tail(sig), request, caches, kwargs)

depends_call(w, request, caches) ==
  LET f == Dependency(w)
      b == BindDependencies(DependencySig(f), request, caches, <<>>)
      result == DependencyResult(f, b.kwargs)
  IN IF f \in DOMAIN caches[w]
     THEN [caches |-> caches, value |-> caches[w][f],
           calls |-> <<Resolution(w, FALSE, caches[w][f])>>]
     ELSE [caches |-> [b.caches EXCEPT ![w] = (f :> result) @@ @], value |-> result,
           calls |-> b.calls \o <<Resolution(w, TRUE, result)>>]

\* ------------------------------------------------------ handler invocation
\* What the handler body does once called is an input h of the request:
\* return a JSONResponse echoing its arguments, return a StreamingResponse,
\* or raise.  Calling with keyword arguments that do not fit the signature
\* is Python's TypeError; a parameter that is not given takes its default.
CallHandler(handler, kwargs, h) ==
  IF \/ ~(DOMAIN kwargs \subseteq Names(HandlerSig(handler)))
     \/ ~(Names(HandlerSig(handler)) \ DOMAIN Defaults(handler) \subseteq DOMAIN kwargs)
  THEN [raised |-> TRUE, exc |-> PyException("TypeError", <<"bad arguments">>),
        response |-> NoResponse]
  ELSE CASE h.op = "raise" -> [raised |-> TRUE, exc |-> h.exc, response |-> NoResponse]
         [] h.op = "stream" ->
              [raised |-> FALSE, exc |-> NoException,
               response |-> StreamingResponse([chunks |-> h.chunks, fail_at |-> h.fail_at],
                                              200, <<>>)]
         [] OTHER ->
              [raised |-> FALSE, exc |-> NoException,
               response |-> JSONResponse([v |-> kwargs @@ Defaults(handler),
                                          encodable |-> h.encodable],
                                         200, <<>>)]

\* ---------------------------------------------------- Router.handle_request
\* path.rstrip("/") or "/"
Normalize(path) == IF path.segs = <<>> THEN Path(<<>>, 1) ELSE Path(path.segs, 0)

\* Variant of FindRoute without the break: the last matching route wins.
FindRoute_last(rs, idxs, path, k) ==
  LET hits == {n \in k..Len(idxs) : Match(rs[idxs[n]], path).matched}
  IN IF hits = {} THEN 0 ELSE idxs[CHOOSE n \in hits : \A m \in hits : m <= n]

\* Variant of FindRoute that takes the method's first route without looking
\* at the result of match().
FindRoute_unchecked(rs, idxs, path, k) ==
  IF k > Len(idxs) THEN 0 ELSE idxs[k]

\* the first loop: the first route of the method's list whose match() is not
\* None; 0 stands for "matched_route is None"
RECURSIVE FindRoute(_, _, _, _)
FindRoute(rs, idxs, path, k) ==
  IF k > Len(idxs) THEN 0
  ELSE IF Match(rs[idxs[k]], path).matched THEN idxs[k]
  ELSE FindRoute(rs, idxs, path, k + 1)

\* the second loop: the methods of every route whose match() is truthy
AllowedMethods(rs, path) ==
  UNION {Range(rs[i].methods) : i \in {j \in 1..Len(rs) : Truthy(Match(rs[j], path))}}

\* the body-parameter loop over the handler's signature
RECURSIVE BindBody(_, _, _, _)
BindBody(sig, kwargs, request, bytes) ==
  IF sig = <<>> THEN [ok |-> TRUE, kwargs |-> kwargs, request |-> request, exc |-> NoException]
  ELSE IF Head(sig).name \notin DOMAIN kwargs /\ Head(sig).type = "Item"
  THEN LET b == extract_body_params(request, bytes)
       IN IF b.ok
          THEN BindBody(Tail(sig), (Head(sig).name :> b.v) @@ kwargs, b.request, bytes)
          ELSE [ok |-> FALSE, kwargs |-> kwargs, request |-> b.request, exc |-> b.v]
  ELSE BindBody(Tail(sig), kwargs, request, bytes)

\* the result of one Router.handle_request call: the request as it leaves
\* the call, the response returned or the exception raised, the route that
\* matched (0 for none) and the handler calls made
\* and the exception the handler raised (NoException when it raised none)
Outcome(request, raised, exc, response, matched, called, thrown) ==
  [request |-> request, raised |-> raised, exc |-> exc, response |-> response,
   route |-> matched, called |-> called, thrown |-> thrown]

Returned(request, response, matched, called) ==
  Outcome(request, FALSE, NoException, response, matched, called, NoException)

\* Variant of Recover without the "except ValidationError" clause.
Recover_reraise(request, exc, matched, called) ==
  Outcome(request, TRUE, exc, NoResponse, matched, called,
          IF called = <<>> THEN NoException ELSE exc)

\* the except clauses around argument binding and the handler call
Recover(request, exc, matched, called) ==
  IF exc.cls = "ValidationError"
  THEN Outcome(request, FALSE, NoException,
               JSONResponse(Json([error |-> Str(exc)]), 422, <<>>), matched, called,
               IF called = <<>> THEN NoException ELSE exc)
  ELSE Outcome(request, TRUE, exc, NoResponse, matched, called,
               IF called = <<>> THEN NoException ELSE exc)

\* Variant of method_routes_get that indexes the defaultdict: a method
\* without routes gets a key of its own.
method_routes_getitem(index, method) ==
  [routes |-> IF method \in DOMAIN index THEN index[method] ELSE <<>>,
   index |-> IF method \in DOMAIN index THEN index ELSE (method :> <<>>) @@ index]

\* self._method_routes.get(request.method, []): the method's routes, and the
\* index as the lookup leaves it
method_routes_get(index, method) ==
  [routes |-> IF method \in DOMAIN index THEN index[method] ELSE <<>>,
   index |-> index]

\* the router as a handle_request call leaves it: the lookup in the index is
\* the only access that is not a plain read of a route
router_after(router, request) ==
  [routes |-> router.routes,
   method_routes |-> method_routes_get(router.method_routes, request.method).index]

handle_request(router, request, bytes, h) ==
  LET path == Normalize(request.path)
      matched == FindRoute(router.routes,
                           method_routes_get(router.method_routes, request.method).routes,
                           path, 1)
      allowed == AllowedMethods(router.routes, path)
  IN IF matched = 0
     THEN IF allowed # {}
          THEN Returned(request,
                        JSONResponse(Json([error |-> "Method Not Allowed",
                                           allowed_methods |-> allowed]),
                                     405, "Allow" :> allowed),
                        0, <<>>)
          ELSE Returned(request, JSONResponse(Json([error |-> "Not Found"]), 404, <<>>),
                        0, <<>>)
     ELSE LET r == router.routes[matched]
              m == Match(r, path)
              req == [request EXCEPT !.path_params = m]
              sig == HandlerSig(r.handler)
              ctx == IF "ctx" \in Names(sig)
                     THEN "ctx" :> [t |-> "RequestContext", v |-> <<>>]
                     ELSE IF "request" \in Names(sig)
                     THEN "request" :> [t |-> "Request", v |-> <<>>]
                     ELSE <<>>
              bound == BindBody(sig, ctx @@ m.params, req, bytes)
              call == [handler |-> r.handler, route |-> matched, kwargs |-> bound.kwargs]
              res == CallHandler(r.handler, bound.kwargs, h)
          IN IF ~bound.ok THEN Recover(bound.request, bound.exc, matched, <<>>)
             ELSE IF res.raised THEN Recover(bound.request, res.exc, matched, <<call>>)
             ELSE Returned(bound.request, res.response, matched, <<call>>)

\* ------------------------------------------------------------------- state
VARIABLES
  routes,          \* Router.routes
  method_routes,   \* Router._method_routes: method -> positions in routes
  request,         \* the Request of the open exchange (NoRequest: none open)
  outcome,         \* what Router.handle_request did with it
  debug,           \* Application.debug
  plugins_enabled, \* Application._plugins_enabled
  plugins,         \* PluginManager.plugins
  middleware,      \* Application.middleware
  pc,              \* where Application._handle_http stands for the open exchange
  response,        \* the local "response" of handle_request / _handle_http
  caught,          \* the exception _handle_http's except clause caught
  thrown,          \* the exception the handler or a middleware raised
  chain,           \* the middleware the loop of handle_request has yet to run
  chunk,           \* chunks a StreamingResponse has sent
  sent,            \* the messages the transport's send() accepted, in order
  log,             \* hooks and middleware run, send() failures, in order
  startup_handlers,  \* Application._startup_handlers
  shutdown_handlers, \* Application._shutdown_handlers
  lifespan_manager,  \* Application._lifespan_manager is set
  startup_complete,  \* Application._startup_complete
  shutdown_complete, \* Application._shutdown_complete
  requests,        \* RateLimiter.requests: key -> timestamps of the admitted calls
  now,             \* what time.time() returns
  calls,           \* the is_allowed calls made, with what each returned
  dep_cache,       \* Depends._cache of every Depends object
  resolved,        \* the Depends calls of the open exchange, with what each did
  inbox,           \* the messages the transport's receive() has yet to deliver
  received,        \* the receive() calls made on the open exchange
  reads,           \* what the body() calls of the open exchange returned
  tasks,           \* the request tasks inside RateLimiter.is_allowed
  loop,            \* where Application._handle_lifespan stands
  exchanges,       \* the lifespan messages received, each with the replies sent
  callers,         \* the startup() and shutdown() calls under way, each with its place
  ran,             \* the handlers and hooks run since the first of those calls began
  readers,         \* the body() calls of the open exchange suspended in receive()
  cors,            \* the CORSMiddleware: the list it was given, the list it keeps
  crossed,         \* the last call of the CORSMiddleware, with the response it returned
  view,            \* the mapping the last read of Response.headers returned
  written,         \* the headers written to the response: name -> value written last
  websocket,       \* WebSocket.state: connected, closed, close_code
  wire,            \* the messages the WebSocket passed to send(), in order
  ws_result,       \* the last operation on the WebSocket and whether it raised
  active_connections, \* WebSocketPool.active_connections
  closed_connections, \* the pooled WebSockets whose state.closed is set
  broadcast        \* the broadcast under way: where its loop stands, what it delivered

routerVars == <<routes, method_routes>>

configVars == <<debug, plugins_enabled, plugins, middleware>>

connVars == <<pc, response, caught, thrown, chain, chunk, sent, log>>

lifeVars == <<startup_handlers, shutdown_handlers, lifespan_manager,
              startup_complete, shutdown_complete>>

limiterVars == <<requests, now, calls>>

depVars == <<dep_cache, resolved>>

bodyVars == <<inbox, received, reads>>

taskVars == <<tasks>>

\* the state of the components beside the router and the application
loopVars == <<loop, exchanges>>

overlapVars == <<callers, ran>>

readerVars == <<readers>>

corsVars == <<cors, crossed>>

headerVars == <<view, written>>

socketVars == <<websocket, wire, ws_result>>

poolVars == <<active_connections, closed_connections, broadcast>>

componentVars == <<taskVars, loopVars, overlapVars, readerVars, corsVars, headerVars, socketVars, poolVars>>

appVars == <<debug, plugins_enabled, plugins, middleware,
             pc, response, caught, thrown, chain, chunk, sent, log,
             startup_handlers, shutdown_handlers, lifespan_manager,
             startup_complete, shutdown_complete>>

vars == <<routes, method_routes, request, outcome,
          debug, plugins_enabled, plugins, middleware,
          pc, response, caught, thrown, chain, chunk, sent, log,
          startup_handlers, shutdown_handlers, lifespan_manager,
          startup_complete, shutdown_complete, requests, now, calls,
          dep_cache, resolved, inbox, received, reads, componentVars>>

Router == [routes |-> routes, method_routes |-> method_routes]

NoRequest == NewRequest("", Path(<<>>, 0))

NoOutcome == Returned(NoRequest, NoResponse, 0, <<>>)

\* ------------------------------------------------------------------ inputs
\* the route declarations the model registers: path, methods as written,
\* handler
RouteDecls ==
  { [path |-> Path(<<>>, 1), methods |-> <<"get">>, handler |-> "home"],
    [path |-> Path(<<Lit(items)>>, 0), methods |-> <<"POST">>, handler |-> "create_item"],
    [path |-> Path(<<Lit(items), Param("item_id")>>, 0), methods |-> <<"GET">>,
     handler |-> "get_item"],
    [path |-> Path(<<Lit(items), Param("item_id")>>, 0), methods |-> <<"GET", "POST">>,
     handler |-> "get_by_name"],
    [path |-> Path(<<Lit(items), Param("item_id")>>, 0), methods |-> <<"POST">>,
     handler |-> "get_flag"],
    [path |-> Path(<<Lit(items), Param("item_id")>>, 0), methods |-> <<"GET">>,
     handler |-> "get_price"],
    [path |-> Path(<<Lit(items)>>, 0), methods |-> <<"get", "GET">>, handler |-> "home"] }

\* a sub-router's own prefix and the prefix it is included under
Mounts == { [own |-> <<>>, under |-> <<api>>], [own |-> <<api>>, under |-> <<>>] }

RECURSIVE SeqsUpTo(_, _)
SeqsUpTo(S, n) ==
  IF n = 0 THEN {<<>>}
  ELSE LET shorter == SeqsUpTo(S, n - 1)
       IN shorter \cup {Append(q, x) : q \in shorter, x \in S}

RECURSIVE Registered(_, _, _)
Registered(router, prefix, decls) ==
  IF decls = <<>> THEN router
  ELSE Registered(route(router, prefix, Head(decls).path, Head(decls).methods,
                        Head(decls).handler),
                  prefix, Tail(decls))

Methods == {"GET", "POST", "DELETE"}

RequestPaths ==
  { Path(<<>>, 1), Path(<<items>>, 0), Path(<<items>>, 1),
    Path(<<items, <<"1", "2", "3">> >>, 0), Path(<<items, <<"a", "b", "c">> >>, 0),
    Path(<<items, <<"-", "1", ".", "5", "0">> >>, 0), Path(<<items, <<"T", "R", "U", "E">> >>, 0),
    Path(<<api, items, <<"0">> >>, 1), Path(<<api>>, 0) }

Bodies == {"item_json", "bad_price_json", "not_json"}

Returns(encodable) ==
  [op |-> "return", exc |-> NoException, encodable |-> encodable, chunks |-> 0, fail_at |-> 0]

Streams(chunks, fail_at) ==
  [op |-> "stream", exc |-> NoException, encodable |-> TRUE, chunks |-> chunks,
   fail_at |-> fail_at]

Raises(exc) ==
  [op |-> "raise", exc |-> exc, encodable |-> TRUE, chunks |-> 0, fail_at |-> 0]

HTTPErrors == {Forbidden(<<>>), Unauthorized(<<"token expired">>), ValidationError(<<>>)}

OtherErrors == {PyException("RuntimeError", <<"boom">>)}

RouterHandlerInputs ==
  {Returns(TRUE)} \cup {Raises(e) : e \in HTTPErrors \cup OtherErrors}

\* ----------------------------------------------------------- router actions
\* Routes are registered between exchanges: the route list an exchange ran
\* on is the route list of the state that shows its outcome.
\* Application.__init__: no handlers, no resource manager, neither flag set
Created ==
  /\ startup_handlers = <<>>
  /\ shutdown_handlers = <<>>
  /\ lifespan_manager = FALSE
  /\ startup_complete = FALSE
  /\ shutdown_complete = FALSE

\* RateLimiter.__init__: defaultdict(list), nothing recorded
NewLimiter ==
  /\ requests = <<>>
  /\ now = 0
  /\ calls = <<>>

\* Depends(...) at import time: every _cache is empty
NewDepends ==
  /\ dep_cache = [w \in Wrappers |-> <<>>]
  /\ resolved = <<>>

\* no exchange is open: nothing to receive, nothing read
NoTransport ==
  /\ inbox = <<>>
  /\ received = 0
  /\ reads = <<>>

\* no request task is inside is_allowed
NoTasks == tasks = <<>>

\* no lifespan scope was opened
NoLoop ==
  /\ loop = "none"
  /\ exchanges = <<>>

\* no startup() or shutdown() call is under way
NoCallers ==
  /\ callers = <<>>
  /\ ran = <<>>

\* no body() call is under way
NoReaders == readers = {}

\* no CORSMiddleware was made
NoCORS ==
  /\ cors = [made |-> FALSE, given |-> <<>>, allow_origins |-> <<>>]
  /\ crossed = <<>>

\* no header was written, Response.headers was not read
NoHeaders ==
  /\ view = [store |-> <<>>, dict |-> <<>>]
  /\ written = <<>>

\* WebSocket(scope, receive, send): WebSocketState() with its defaults
\* (close_code 0 stands for None)
NewWebSocket ==
  /\ websocket = [connected |-> FALSE, closed |-> FALSE, close_code |-> 0]
  /\ wire = <<>>
  /\ ws_result = [op |-> "", raised |-> FALSE]

\* the iterator of a for loop over a set, and what the loop has done; the
\* iterator keeps the size the set had when the loop began
NoBroadcast ==
  [at |-> "none", size |-> 0, visited |-> {}, delivered |-> {}, pooled |-> {},
   suspended |-> FALSE]

\* WebSocketPool(): no connection, no broadcast
NewPool ==
  /\ active_connections = {}
  /\ closed_connections = {}
  /\ broadcast = NoBroadcast

ComponentsIdle ==
  /\ NoTasks
  /\ NoLoop
  /\ NoCallers
  /\ NoReaders
  /\ NoCORS
  /\ NoHeaders
  /\ NewWebSocket
  /\ NewPool

NoConnection ==
  /\ pc = "idle"
  /\ response = NoResponse
  /\ caught = NoException
  /\ thrown = NoException
  /\ chain = <<>>
  /\ chunk = 0
  /\ sent = <<>>
  /\ log = <<>>

\* Router() on its own; the application around it plays no part
InitRouter ==
  /\ routes = <<>>
  /\ method_routes = <<>>
  /\ request = NoRequest
  /\ outcome = NoOutcome
  /\ debug = FALSE
  /\ plugins_enabled = FALSE
  /\ plugins = <<>>
  /\ middleware = <<>>
  /\ NoConnection
  /\ Created
  /\ NewLimiter
  /\ NewDepends
  /\ NoTransport
  /\ ComponentsIdle

\* @router.route(path, methods=...) on the application's router
Route(d) ==
  /\ request = NoRequest
  /\ Len(routes) < MaxRoutes
  /\ LET r == route(Router, <<>>, d.path, d.methods, d.handler)
     IN /\ routes' = r.routes
        /\ method_routes' = r.method_routes
  /\ UNCHANGED <<depVars, bodyVars, componentVars, request, outcome, appVars, limiterVars>>

\* router.add_route(Route(path, handler, methods))
AddRoute(d) ==
  /\ request = NoRequest
  /\ Len(routes) < MaxRoutes
  /\ LET r == add_route(Router, NewRoute(d.path, d.handler, d.methods, <<>>, <<>>, NoRateLimit))
     IN /\ routes' = r.routes
        /\ method_routes' = r.method_routes
  /\ UNCHANGED <<depVars, bodyVars, componentVars, request, outcome, appVars, limiterVars>>

\* router.include_router(sub, prefix) for a sub-router built by route() calls
IncludeRouter(decls, mount) ==
  /\ request = NoRequest
  /\ decls # <<>>
  /\ Len(routes) + Len(decls) <= MaxRoutes
  /\ LET sub == Registered(EmptyRouter, mount.own, decls)
         r == include_router(Router, sub.routes, mount.under)
     IN /\ routes' = r.routes
        /\ method_routes' = r.method_routes
  /\ UNCHANGED <<depVars, bodyVars, componentVars, request, outcome, appVars, limiterVars>>

\* await router.handle_request(Request(scope, receive))
HandleRequest(method, path, bytes, h) ==
  /\ request = NoRequest
  /\ LET res == handle_request(Router, NewRequest(method, path), bytes, h)
     IN /\ request' = res.request
        /\ outcome' = res
  /\ routes' = router_after(Router, NewRequest(method, path)).routes
  /\ method_routes' = router_after(Router, NewRequest(method, path)).method_routes
  /\ UNCHANGED <<depVars, bodyVars, componentVars, lifeVars, limiterVars, appVars, limiterVars>>

\* the connection ends and its Request is discarded
Close ==
  /\ request # NoRequest
  /\ request' = NoRequest
  /\ outcome' = NoOutcome
  /\ resolved' = <<>>
  /\ inbox' = <<>>
  /\ received' = 0
  /\ reads' = <<>>
  /\ UNCHANGED <<dep_cache, componentVars, routerVars, lifeVars, limiterVars, appVars>>

NextRouter ==
  \/ Close
  \/ \E d \in RouteDecls : Route(d)
  \/ \E d \in RouteDecls : AddRoute(d)
  \/ \E decls \in SeqsUpTo(RouteDecls, MaxInclude), mount \in Mounts : IncludeRouter(decls, mount)
  \/ \E method \in Methods, path \in RequestPaths, bytes \in Bodies, h \in RouterHandlerInputs :
       HandleRequest(method, path, bytes, h)

SpecRouter == InitRouter /\ [][NextRouter]_vars

\* ------------------------------------------------------------- application
\* Variant of Chain that walks the middleware list in registration order.
Chain_forward(mw) == mw

\* reversed(self.middleware): the order in which handle_request's loop calls
\* the middleware
Chain(mw) == Reverse(mw)

\* Variant of AppExcept that answers any exception itself, with str(e) as the
\* error text.
AppExcept_leaky(e, dbg) ==
  IF e.http
  THEN [raised |-> FALSE, exc |-> NoException,
        response |-> JSONResponse(Json([error |-> e.detail, status_code |-> e.status_code]),
                                  e.status_code, e.headers)]
  ELSE [raised |-> FALSE, exc |-> NoException,
        response |-> JSONResponse(Json([error |-> Str(e), status_code |-> 500]), 500, <<>>)]

\* the except clause of Application.handle_request: an HTTPException becomes
\* its JSONResponse, anything else is re-raised as InternalServerError
AppExcept(e, dbg) ==
  IF e.http
  THEN [raised |-> FALSE, exc |-> NoException,
        response |-> JSONResponse(Json([error |-> e.detail, status_code |-> e.status_code]),
                                  e.status_code, e.headers)]
  ELSE [raised |-> TRUE, exc |-> InternalServerError(<<IF dbg THEN Str(e) ELSE None>>),
        response |-> NoResponse]

\* the error_response of _handle_http's except clause
ErrorResponse(e, dbg, path) ==
  JSONResponse(Json([error |-> IF dbg THEN Str(e) ELSE "Internal Server Error",
                     status_code |-> 500, path |-> path]),
               500, <<>>)

\* the two kinds of message Response.__call__ sends
StartMessage(resp) ==
  [type |-> "http.response.start", status |-> resp.status_code, headers |-> resp.headers,
   body |-> <<>>, more_body |-> FALSE]

BodyMessage(content, more_body) ==
  [type |-> "http.response.body", status |-> 0, headers |-> <<>>, body |-> content,
   more_body |-> more_body]

Event(ev, who) == [ev |-> ev, who |-> who]

\* Variant of RunHooks in which a hook that raises ends the loop: the hooks of
\* the plugins after it do not run.
RECURSIVE RunHooks_failfast(_, _, _)
RunHooks_failfast(hook, ps, failing) ==
  IF ps = <<>> THEN <<>>
  ELSE IF Head(ps) \in failing
  THEN <<Event(hook, Head(ps)), Event("swallowed", Head(ps))>>
  ELSE <<Event(hook, Head(ps))>> \o RunHooks_failfast(hook, Tail(ps), failing)

\* PluginManager.run_pre_request / run_post_request: every plugin's hook in
\* registration order; a hook that raises is logged and swallowed
RECURSIVE RunHooks(_, _, _)
RunHooks(hook, ps, failing) ==
  IF ps = <<>> THEN <<>>
  ELSE <<Event(hook, Head(ps))>>
       \o (IF Head(ps) \in failing THEN <<Event("swallowed", Head(ps))>> ELSE <<>>)
       \o RunHooks(hook, Tail(ps), failing)

\* Variant of AfterHandle that emits the response right away.
AfterHandle_direct == "emit_start"

\* where _handle_http goes once handle_request has returned a response
AfterHandle == IF plugins_enabled THEN "post" ELSE "emit_start"

\* ------------------------------------------------------ application inputs
raw == <<"r", "a", "w">>

\* the routes of the application under test (tests/test_core.py)
AppDecls ==
  << [path |-> Path(<<>>, 1), methods |-> <<"GET">>, handler |-> "home"],
     [path |-> Path(<<Lit(items), Param("item_id")>>, 0), methods |-> <<"GET">>,
      handler |-> "get_item"],
     [path |-> Path(<<Lit(items)>>, 0), methods |-> <<"POST">>, handler |-> "create_item"],
     [path |-> Path(<<Lit(items), Lit(raw)>>, 0), methods |-> <<"POST">>,
      handler |-> "create_raw_item"] >>

AppRouter == Registered(EmptyRouter, <<>>, AppDecls)

AppRequests ==
  { [method |-> "GET", path |-> Path(<<items, <<"1", "2", "3">> >>, 0)],
    [method |-> "GET", path |-> Path(<<items, <<"a", "b", "c">> >>, 0)],
    [method |-> "DELETE", path |-> Path(<<items, <<"1", "2", "3">> >>, 0)],
    [method |-> "POST", path |-> Path(<<items>>, 0)] }

AppHandlerInputs ==
  {Returns(TRUE), Returns(FALSE), Streams(MaxChunks, 0), Streams(MaxChunks, MaxChunks)}
  \cup {Raises(e) : e \in HTTPErrors \cup OtherErrors}

\* what a middleware does when called: await call_next and append its name
\* to the X-Order header of the response it got, or raise
Marks == [op |-> "mark", exc |-> NoException]

MiddlewareInputs ==
  {Marks} \cup {[op |-> "raise", exc |-> e] : e \in {Forbidden(<<>>)} \cup OtherErrors}

MiddlewareNames == {"A", "B"}

PluginNames == {"P", "Q"}

SendError == PyException("OSError", <<"send failed">>)

\* ------------------------------------------------------ application actions
\* Application(debug=..., enable_plugins=...) with app.router set
Init ==
  /\ routes = AppRouter.routes
  /\ method_routes = AppRouter.method_routes
  /\ request = NoRequest
  /\ outcome = NoOutcome
  /\ debug \in BOOLEAN
  /\ plugins_enabled \in BOOLEAN
  /\ plugins = <<>>
  /\ middleware = <<>>
  /\ NoConnection
  /\ Created
  /\ NewLimiter
  /\ NewDepends
  /\ NoTransport
  /\ ComponentsIdle

\* Application.add_middleware
AddMiddleware(name) ==
  /\ pc = "idle"
  /\ Len(middleware) < MaxMiddleware
  /\ middleware' = Append(middleware, name)
  /\ UNCHANGED <<depVars, bodyVars, componentVars, routerVars, lifeVars, limiterVars, request, outcome, debug, plugins_enabled, plugins, connVars>>

\* Application.register_plugin; with plugins disabled it raises RuntimeError
\* and changes nothing
RegisterPlugin(name) ==
  /\ pc = "idle"
  /\ plugins_enabled
  /\ Len(plugins) < MaxPlugins
  /\ plugins' = Append(plugins, name)
  /\ UNCHANGED <<depVars, bodyVars, componentVars, routerVars, lifeVars, limiterVars, request, outcome, debug, plugins_enabled, middleware, connVars>>

\* Variant of Connect that accepts a request only between startup() and
\* shutdown().
Connect_gated(method, path) ==
  /\ startup_complete /\ ~shutdown_complete
  /\ pc = "idle"
  /\ request' = NewRequest(method, path)
  /\ pc' = IF plugins_enabled THEN "pre" ELSE "dispatch"
  /\ UNCHANGED <<depVars, bodyVars, componentVars, routerVars, lifeVars, limiterVars, outcome, configVars,
                 response, caught, thrown, chain, chunk, sent, log>>

\* Application.__call__ with an http scope: _handle_http is entered and
\* request = Request(scope, receive)
Connect(method, path) ==
  /\ pc = "idle"
  /\ request' = NewRequest(method, path)
  /\ pc' = IF plugins_enabled THEN "pre" ELSE "dispatch"
  /\ UNCHANGED <<depVars, bodyVars, componentVars, routerVars, lifeVars, limiterVars, outcome, configVars, response, caught, thrown, chain, chunk,
                 sent, log>>

\* await self.plugin_manager.run_pre_request(request)
PreRequest(failing) ==
  /\ pc = "pre"
  /\ log' = log \o RunHooks("pre_request", plugins, failing)
  /\ pc' = "dispatch"
  /\ UNCHANGED <<depVars, bodyVars, componentVars, routerVars, lifeVars, limiterVars, request, outcome, configVars, response, caught, thrown, chain,
                 chunk, sent>>

\* what Application.handle_request does with the router's result: the
\* response goes to the middleware loop, an exception to the except clause
Routed(res) ==
  LET handled == AppExcept(res.exc, debug)
  IN /\ request' = res.request
     /\ outcome' = res
     /\ thrown' = res.thrown
     /\ IF ~res.raised
        THEN /\ response' = res.response
             /\ chain' = Chain(middleware)
             /\ pc' = IF middleware = <<>> THEN AfterHandle ELSE "middleware"
             /\ caught' = caught
        ELSE IF ~handled.raised
        THEN /\ response' = handled.response
             /\ chain' = <<>>
             /\ pc' = AfterHandle
             /\ caught' = caught
        ELSE /\ response' = response
             /\ chain' = <<>>
             /\ pc' = "error_start"
             /\ caught' = handled.exc

\* handle_request: response = await self.router.handle_request(request),
\* with the except clause when the router raises
Dispatch(bytes, h) ==
  /\ pc = "dispatch"
  /\ Routed(handle_request(Router, request, bytes, h))
  /\ routes' = router_after(Router, request).routes
  /\ method_routes' = router_after(Router, request).method_routes
  /\ UNCHANGED <<depVars, bodyVars, componentVars, lifeVars, limiterVars, configVars, chunk, sent, log>>

\* Variant of Middleware in which the loop logs a middleware's exception and
\* goes on with the next middleware.
Middleware_resume(m) ==
  /\ pc = "middleware"
  /\ chain # <<>>
  /\ LET who == Head(chain)
         old == IF "x-order" \in DOMAIN response.headers
                THEN response.headers["x-order"] ELSE <<>>
     IN /\ chain' = Tail(chain)
        /\ pc' = IF Tail(chain) = <<>> THEN AfterHandle ELSE "middleware"
        /\ caught' = caught
        /\ IF m.op = "mark"
           THEN /\ response' = add_header(response, "X-Order", Append(old, who))
                /\ log' = log \o <<Event("mw_in", who), Event("mw_out", who)>>
                /\ thrown' = thrown
           ELSE /\ response' = response
                /\ log' = log \o <<Event("mw_in", who), Event("mw_raised", who)>>
                /\ thrown' = m.exc
  /\ UNCHANGED <<depVars, bodyVars, componentVars, routerVars, lifeVars, limiterVars, request, outcome, configVars, chunk, sent>>

\* one turn of the loop: response = await middleware(request, call_next),
\* where call_next returns the response computed so far
Middleware(m) ==
  /\ pc = "middleware"
  /\ chain # <<>>
  /\ LET who == Head(chain)
         old == IF "x-order" \in DOMAIN response.headers
                THEN response.headers["x-order"] ELSE <<>>
         handled == AppExcept(m.exc, debug)
     IN IF m.op = "mark"
        THEN /\ response' = add_header(response, "X-Order", Append(old, who))
             /\ chain' = Tail(chain)
             /\ pc' = IF Tail(chain) = <<>> THEN AfterHandle ELSE "middleware"
             /\ log' = log \o <<Event("mw_in", who), Event("mw_out", who)>>
             /\ UNCHANGED <<caught, thrown>>
        ELSE /\ thrown' = m.exc
             /\ chain' = <<>>
             /\ log' = log \o <<Event("mw_in", who), Event("mw_raised", who)>>
             /\ IF ~handled.raised
                THEN /\ response' = handled.response
                     /\ pc' = AfterHandle
                     /\ caught' = caught
                ELSE /\ response' = response
                     /\ pc' = "error_start"
                     /\ caught' = handled.exc
  /\ UNCHANGED <<depVars, bodyVars, componentVars, routerVars, lifeVars, limiterVars, request, outcome, configVars, chunk, sent>>

\* await self.plugin_manager.run_post_request(request, response)
PostRequest(failing) ==
  /\ pc = "post"
  /\ log' = log \o RunHooks("post_request", plugins, failing)
  /\ pc' = "emit_start"
  /\ UNCHANGED <<depVars, bodyVars, componentVars, routerVars, lifeVars, limiterVars, request, outcome, configVars, response, caught, thrown, chain,
                 chunk, sent>>

\* await send(message) inside response(scope, receive, send): the transport
\* takes the message, or send raises and _handle_http's except clause runs
Send(msg, ok, next) ==
  IF ok
  THEN /\ sent' = Append(sent, msg)
       /\ pc' = next
       /\ UNCHANGED <<caught, log>>
  ELSE /\ sent' = sent
       /\ pc' = "error_start"
       /\ caught' = SendError
       /\ log' = Append(log, Event("send_failed", msg.type))

\* Response.__call__ up to the response-start message: the content is
\* encoded first (StreamingResponse encodes nothing up front)
EmitStart(ok) ==
  /\ pc = "emit_start"
  /\ IF response.cls = "JSONResponse" /\ ~response.content.encodable
     THEN /\ caught' = PyException("TypeError", <<"not serializable">>)
          /\ pc' = "error_start"
          /\ UNCHANGED <<sent, log>>
     ELSE Send(StartMessage(response), ok,
               IF response.cls = "StreamingResponse" THEN "emit_chunk" ELSE "emit_body")
  /\ UNCHANGED <<depVars, bodyVars, componentVars, routerVars, lifeVars, limiterVars, request, outcome, configVars, response, thrown, chain, chunk>>

\* Response.__call__: the single response-body message
EmitBody(ok) ==
  /\ pc = "emit_body"
  /\ Send(BodyMessage(response.content.v, FALSE), ok, "done")
  /\ UNCHANGED <<depVars, bodyVars, componentVars, routerVars, lifeVars, limiterVars, request, outcome, configVars, response, thrown, chain, chunk>>

\* StreamingResponse.__call__: one turn of "async for chunk", or the closing
\* empty body message; the content iterator itself may raise
EmitChunk(ok) ==
  /\ pc = "emit_chunk"
  /\ IF chunk + 1 > response.content.chunks
     THEN /\ Send(BodyMessage(<<>>, FALSE), ok, "done")
          /\ chunk' = chunk
     ELSE IF response.content.fail_at = chunk + 1
     THEN /\ caught' = PyException("RuntimeError", <<"stream broke">>)
          /\ pc' = "error_start"
          /\ UNCHANGED <<sent, log, chunk>>
     ELSE /\ Send(BodyMessage(<<chunk + 1>>, TRUE), ok, "emit_chunk")
          /\ chunk' = IF ok THEN chunk + 1 ELSE chunk
  /\ UNCHANGED <<depVars, bodyVars, componentVars, routerVars, lifeVars, limiterVars, request, outcome, configVars, response, thrown, chain>>

\* the except clause of _handle_http: error_response's response-start; when
\* this send raises nothing is left to catch it
ErrorStart(ok) ==
  /\ pc = "error_start"
  /\ IF ok
     THEN /\ sent' = Append(sent, StartMessage(ErrorResponse(caught, debug, request.path)))
          /\ pc' = "error_body"
          /\ log' = log
     ELSE /\ sent' = sent
          /\ pc' = "escaped"
          /\ log' = Append(log, Event("send_failed", "http.response.start"))
  /\ UNCHANGED <<depVars, bodyVars, componentVars, routerVars, lifeVars, limiterVars, request, outcome, configVars, response, caught, thrown, chain,
                 chunk>>

ErrorBody(ok) ==
  /\ pc = "error_body"
  /\ IF ok
     THEN /\ sent' = Append(sent, BodyMessage(ErrorResponse(caught, debug, request.path).content.v,
                                              FALSE))
          /\ pc' = "done"
          /\ log' = log
     ELSE /\ sent' = sent
          /\ pc' = "escaped"
          /\ log' = Append(log, Event("send_failed", "http.response.body"))
  /\ UNCHANGED <<depVars, bodyVars, componentVars, routerVars, lifeVars, limiterVars, request, outcome, configVars, response, caught, thrown, chain,
                 chunk>>

\* _handle_http is over (returned, or an exception left it); the connection's
\* objects are discarded
Finish ==
  /\ pc \in {"done", "escaped"}
  /\ request' = NoRequest
  /\ outcome' = NoOutcome
  /\ pc' = "idle"
  /\ response' = NoResponse
  /\ caught' = NoException
  /\ thrown' = NoException
  /\ chain' = <<>>
  /\ chunk' = 0
  /\ sent' = <<>>
  /\ log' = <<>>
  /\ UNCHANGED <<depVars, bodyVars, componentVars, routerVars, lifeVars, limiterVars, configVars>>

Next ==
  \/ \E name \in MiddlewareNames : AddMiddleware(name)
  \/ \E name \in PluginNames : RegisterPlugin(name)
  \/ \E r \in AppRequests : Connect(r.method, r.path)
  \/ \E failing \in SUBSET Range(plugins) : PreRequest(failing)
  \/ \E bytes \in Bodies, h \in AppHandlerInputs : Dispatch(bytes, h)
  \/ \E m \in MiddlewareInputs : Middleware(m)
  \/ \E failing \in SUBSET Range(plugins) : PostRequest(failing)
  \/ \E ok \in BOOLEAN : EmitStart(ok)
  \/ \E ok \in BOOLEAN : EmitBody(ok)
  \/ \E ok \in BOOLEAN : EmitChunk(ok)
  \/ \E ok \in BOOLEAN : ErrorStart(ok)
  \/ \E ok \in BOOLEAN : ErrorBody(ok)
  \/ Finish

Spec == Init /\ [][Next]_vars

\* ---------------------------------------------------------------- lifecycle
HandlerNames == {"h1", "h2"}

\* the resource manager, as a name a failure can be attributed to
lifespan == "lifespan"

\* everything a startup() or shutdown() call can find raising
Raisers == HandlerNames \cup PluginNames \cup {lifespan}

\* no startup() or shutdown() call was made yet: the application is still
\* being put together
Configuring == log = <<>> /\ ~startup_complete /\ ~shutdown_complete

\* Variant of RunStartupHandlers in which a handler that raises is logged and
\* the loop goes on.
RECURSIVE RunStartupHandlers_lenient(_, _)
RunStartupHandlers_lenient(hs, failing) ==
  IF hs = <<>> THEN [events |-> <<>>, raised |-> FALSE]
  ELSE LET rest == RunStartupHandlers_lenient(Tail(hs), failing)
       IN [events |-> <<Event("startup_handler", Head(hs))>>
                      \o (IF Head(hs) \in failing THEN <<Event("failed", Head(hs))>> ELSE <<>>)
                      \o rest.events,
           raised |-> FALSE]

\* the loop over self._startup_handlers: each handler in list order; the
\* first one that raises is logged, ends the loop and its exception is raised
\* again
RECURSIVE RunStartupHandlers(_, _)
RunStartupHandlers(hs, failing) ==
  IF hs = <<>> THEN [events |-> <<>>, raised |-> FALSE]
  ELSE IF Head(hs) \in failing
  THEN [events |-> <<Event("startup_handler", Head(hs)), Event("failed", Head(hs))>>,
        raised |-> TRUE]
  ELSE LET rest == RunStartupHandlers(Tail(hs), failing)
       IN [events |-> <<Event("startup_handler", Head(hs))>> \o rest.events,
           raised |-> rest.raised]

\* Variant of RunShutdownHandlers in which a handler that raises ends the loop.
RECURSIVE RunShutdownHandlers_failfast(_, _)
RunShutdownHandlers_failfast(hs, failing) ==
  IF hs = <<>> THEN <<>>
  ELSE IF Head(hs) \in failing
  THEN <<Event("shutdown_handler", Head(hs)), Event("swallowed", Head(hs))>>
  ELSE <<Event("shutdown_handler", Head(hs))>> \o RunShutdownHandlers_failfast(Tail(hs), failing)

\* the loop over self._shutdown_handlers: each handler in list order; one
\* that raises is logged and the loop goes on
RECURSIVE RunShutdownHandlers(_, _)
RunShutdownHandlers(hs, failing) ==
  IF hs = <<>> THEN <<>>
  ELSE <<Event("shutdown_handler", Head(hs))>>
       \o (IF Head(hs) \in failing THEN <<Event("swallowed", Head(hs))>> ELSE <<>>)
       \o RunShutdownHandlers(Tail(hs), failing)

\* Variant of startup that runs whatever the flag says.
startup_again(failing) ==
  LET hs == RunStartupHandlers(startup_handlers, failing)
      ps == IF plugins_enabled THEN RunHooks("on_startup", plugins, failing) ELSE <<>>
      lm == IF lifespan_manager THEN <<Event("aenter", lifespan)>> ELSE <<>>
  IN IF hs.raised
     THEN [events |-> hs.events, raised |-> TRUE, complete |-> startup_complete]
     ELSE IF lifespan_manager /\ lifespan \in failing
     THEN [events |-> hs.events \o ps \o lm, raised |-> TRUE, complete |-> startup_complete]
     ELSE [events |-> hs.events \o ps \o lm, raised |-> FALSE, complete |-> TRUE]

\* Application.startup: what runs, whether the call raises, and the value
\* _startup_complete has afterwards
startup(failing) ==
  IF startup_complete
  THEN [events |-> <<>>, raised |-> FALSE, complete |-> TRUE]
  ELSE LET hs == RunStartupHandlers(startup_handlers, failing)
           ps == IF plugins_enabled THEN RunHooks("on_startup", plugins, failing) ELSE <<>>
           lm == IF lifespan_manager THEN <<Event("aenter", lifespan)>> ELSE <<>>
       IN IF hs.raised
          THEN [events |-> hs.events, raised |-> TRUE, complete |-> FALSE]
          ELSE IF lifespan_manager /\ lifespan \in failing
          THEN [events |-> hs.events \o ps \o lm, raised |-> TRUE, complete |-> FALSE]
          ELSE [events |-> hs.events \o ps \o lm, raised |-> FALSE, complete |-> TRUE]

\* Application.shutdown: every step runs, no failure is raised again
shutdown(failing) ==
  IF shutdown_complete
  THEN [events |-> <<>>, raised |-> FALSE, complete |-> TRUE]
  ELSE LET hs == RunShutdownHandlers(shutdown_handlers, failing)
           ps == IF plugins_enabled THEN RunHooks("on_shutdown", plugins, failing) ELSE <<>>
           lm == IF lifespan_manager
                 THEN <<Event("aexit", lifespan)>>
                      \o (IF lifespan \in failing THEN <<Event("swallowed", lifespan)>> ELSE <<>>)
                 ELSE <<>>
       IN [events |-> hs \o ps \o lm, raised |-> FALSE, complete |-> TRUE]

\* what a call shows: its start, what ran, how it ended
CallEvents(what, res) ==
  <<Event("call", what)>> \o res.events
  \o <<Event(IF res.raised THEN "raised" ELSE "returned", what)>>

\* Application(debug=..., enable_plugins=...), nothing registered yet
InitLifecycle ==
  /\ routes = AppRouter.routes
  /\ method_routes = AppRouter.method_routes
  /\ request = NoRequest
  /\ outcome = NoOutcome
  /\ debug \in BOOLEAN
  /\ plugins_enabled \in BOOLEAN
  /\ plugins = <<>>
  /\ middleware = <<>>
  /\ NoConnection
  /\ Created
  /\ NewLimiter
  /\ NewDepends
  /\ NoTransport
  /\ ComponentsIdle

\* @app.on_event(event_type) applied to a function; each function is
\* registered once per event type
OnEvent(event_type, h) ==
  /\ Configuring
  /\ IF event_type = "startup"
     THEN /\ Len(startup_handlers) < MaxHandlers
          /\ h \notin Range(startup_handlers)
          /\ startup_handlers' = Append(startup_handlers, h)
          /\ UNCHANGED shutdown_handlers
     ELSE /\ Len(shutdown_handlers) < MaxHandlers
          /\ h \notin Range(shutdown_handlers)
          /\ shutdown_handlers' = Append(shutdown_handlers, h)
          /\ UNCHANGED startup_handlers
  /\ UNCHANGED <<depVars, bodyVars, componentVars, routerVars, limiterVars, request, outcome, configVars, connVars,
                 lifespan_manager, startup_complete, shutdown_complete>>

\* the embedding code supplies a resource manager
SetLifespanManager ==
  /\ Configuring
  /\ ~lifespan_manager
  /\ lifespan_manager' = TRUE
  /\ UNCHANGED <<depVars, bodyVars, componentVars, routerVars, limiterVars, request, outcome, configVars, connVars,
                 startup_handlers, shutdown_handlers, startup_complete, shutdown_complete>>

\* await app.startup(); the log shows what this call ran
Startup(failing) ==
  /\ LET res == startup(failing)
     IN /\ startup_complete' = res.complete
        /\ log' = CallEvents("startup", res)
  /\ UNCHANGED <<depVars, bodyVars, componentVars, routerVars, limiterVars, request, outcome, configVars,
                 pc, response, caught, thrown, chain, chunk, sent,
                 startup_handlers, shutdown_handlers, lifespan_manager, shutdown_complete>>

\* await app.shutdown(); the log shows what this call ran
Shutdown(failing) ==
  /\ LET res == shutdown(failing)
     IN /\ shutdown_complete' = res.complete
        /\ log' = CallEvents("shutdown", res)
  /\ UNCHANGED <<depVars, bodyVars, componentVars, routerVars, limiterVars, request, outcome, configVars,
                 pc, response, caught, thrown, chain, chunk, sent,
                 startup_handlers, shutdown_handlers, lifespan_manager, startup_complete>>

NextLifecycle ==
  \/ \E name \in PluginNames : Configuring /\ RegisterPlugin(name)
  \/ \E t \in {"startup", "shutdown"}, h \in HandlerNames : OnEvent(t, h)
  \/ SetLifespanManager
  \/ \E failing \in SUBSET Raisers : Startup(failing)
  \/ \E failing \in SUBSET Raisers : Shutdown(failing)

SpecLifecycle == InitLifecycle /\ [][NextLifecycle]_vars

\* ------------------------------------------------------- lifespan protocol
MaxMessages == 3

LifespanMessages == {"lifespan.startup", "lifespan.shutdown", "lifespan.other"}

\* Variant of handle_lifespan in which the loop goes on after a failed startup.
handle_lifespan_resilient(message, failing) ==
  IF message = "lifespan.startup"
  THEN LET res == startup(failing)
       IN [what |-> "startup", res |-> res, ended |-> FALSE,
           replies |-> <<IF res.raised THEN "lifespan.startup.failed"
                         ELSE "lifespan.startup.complete">>]
  ELSE IF message = "lifespan.shutdown"
  THEN LET res == shutdown(failing)
       IN [what |-> "shutdown", res |-> res, ended |-> TRUE,
           replies |-> <<IF res.raised THEN "lifespan.shutdown.failed"
                         ELSE "lifespan.shutdown.complete">>]
  ELSE [what |-> "none", res |-> [events |-> <<>>, raised |-> FALSE, complete |-> FALSE],
        ended |-> FALSE, replies |-> <<>>]

\* one turn of the loop of Application._handle_lifespan: the call made for
\* the message, the replies sent and whether the loop returns
handle_lifespan(message, failing) ==
  IF message = "lifespan.startup"
  THEN LET res == startup(failing)
       IN [what |-> "startup", res |-> res, ended |-> res.raised,
           replies |-> <<IF res.raised THEN "lifespan.startup.failed"
                         ELSE "lifespan.startup.complete">>]
  ELSE IF message = "lifespan.shutdown"
  THEN LET res == shutdown(failing)
       IN [what |-> "shutdown", res |-> res, ended |-> TRUE,
           replies |-> <<IF res.raised THEN "lifespan.shutdown.failed"
                         ELSE "lifespan.shutdown.complete">>]
  ELSE [what |-> "none", res |-> [events |-> <<>>, raised |-> FALSE, complete |-> FALSE],
        ended |-> FALSE, replies |-> <<>>]

\* the server calls the application with a lifespan scope
LifespanScope ==
  /\ loop = "none"
  /\ loop' = "receiving"
  /\ UNCHANGED <<depVars, bodyVars, poolVars, socketVars, headerVars, corsVars, readerVars, overlapVars, taskVars, exchanges, routerVars, limiterVars, request, outcome, appVars>>

\* message = await receive(), and the branch of the loop taken for it
Receive(message, failing) ==
  /\ loop = "receiving"
  /\ Len(exchanges) < MaxMessages
  /\ exchanges' = Append(exchanges, [message |-> message,
                                     replies |-> handle_lifespan(message, failing).replies])
  /\ loop' = IF handle_lifespan(message, failing).ended THEN "ended" ELSE "receiving"
  /\ startup_complete' = IF handle_lifespan(message, failing).what = "startup"
                         THEN handle_lifespan(message, failing).res.complete
                         ELSE startup_complete
  /\ shutdown_complete' = IF handle_lifespan(message, failing).what = "shutdown"
                          THEN handle_lifespan(message, failing).res.complete
                          ELSE shutdown_complete
  /\ log' = IF handle_lifespan(message, failing).what = "none" THEN log
            ELSE CallEvents(handle_lifespan(message, failing).what,
                            handle_lifespan(message, failing).res)
  /\ UNCHANGED <<depVars, bodyVars, poolVars, socketVars, headerVars, corsVars, readerVars, overlapVars, taskVars, routerVars, limiterVars, request, outcome, configVars,
                 pc, response, caught, thrown, chain, chunk, sent,
                 startup_handlers, shutdown_handlers, lifespan_manager>>

NextLifespan ==
  \/ \E name \in PluginNames : Configuring /\ RegisterPlugin(name)
  \/ \E t \in {"startup", "shutdown"}, h \in HandlerNames : OnEvent(t, h)
  \/ SetLifespanManager
  \/ LifespanScope
  \/ \E message \in LifespanMessages, failing \in SUBSET Raisers : Receive(message, failing)

SpecLifespan == InitLifecycle /\ [][NextLifespan]_vars

\* ------------------------------------------ overlapping lifecycle calls
MaxOverlap == 2

Callers == 1..MaxOverlap

Running == DOMAIN callers

\* what a startup() or shutdown() call awaits, one after the other, when
\* nothing raises
Awaited(what) ==
  IF what = "startup"
  THEN RunStartupHandlers(startup_handlers, {}).events
       \o (IF plugins_enabled THEN RunHooks("on_startup", plugins, {}) ELSE <<>>)
       \o (IF lifespan_manager THEN <<Event("aenter", lifespan)>> ELSE <<>>)
  ELSE RunShutdownHandlers(shutdown_handlers, {})
       \o (IF plugins_enabled THEN RunHooks("on_shutdown", plugins, {}) ELSE <<>>)
       \o (IF lifespan_manager THEN <<Event("aexit", lifespan)>> ELSE <<>>)

Completed(what) == IF what = "startup" THEN startup_complete ELSE shutdown_complete

\* a task calls startup() or shutdown() and gets past the test of the flag
\* (with the flag set the call returns at once and changes nothing)
EnterCall(c, what) ==
  /\ c \notin Running
  /\ ~Completed(what)
  /\ \A d \in Running : callers[d].what = what
  /\ callers' = [d \in Running \cup {c} |->
                   IF d = c THEN [what |-> what, next |-> 1] ELSE callers[d]]
  /\ ran' = IF Running = {} THEN <<>> ELSE ran
  /\ UNCHANGED <<depVars, bodyVars, poolVars, socketVars, headerVars, corsVars, readerVars, taskVars, loopVars, routerVars, limiterVars, request, outcome, appVars>>

\* await handler(), await plugin.on_startup(), ...: the call runs the next
\* thing it awaits and is suspended in it
RunAwaited(c) ==
  /\ c \in Running
  /\ callers[c].next <= Len(Awaited(callers[c].what))
  /\ ran' = Append(ran, Awaited(callers[c].what)[callers[c].next])
  /\ callers' = [callers EXCEPT ![c].next = @ + 1]
  /\ UNCHANGED <<depVars, bodyVars, poolVars, socketVars, headerVars, corsVars, readerVars, taskVars, loopVars, routerVars, limiterVars, request, outcome, appVars>>

\* self._startup_complete = True (self._shutdown_complete = True) and return
ReturnCall(c) ==
  /\ c \in Running
  /\ callers[c].next > Len(Awaited(callers[c].what))
  /\ startup_complete' = (startup_complete \/ callers[c].what = "startup")
  /\ shutdown_complete' = (shutdown_complete \/ callers[c].what = "shutdown")
  /\ callers' = [d \in Running \ {c} |-> callers[d]]
  /\ UNCHANGED <<depVars, bodyVars, poolVars, socketVars, headerVars, corsVars, readerVars, taskVars, loopVars, ran, routerVars, limiterVars, request, outcome, configVars,
                 connVars, startup_handlers, shutdown_handlers, lifespan_manager>>

\* nothing is registered once a call is under way
Assembling == Configuring /\ callers = <<>> /\ ran = <<>>

InitOverlap ==
  /\ routes = AppRouter.routes
  /\ method_routes = AppRouter.method_routes
  /\ request = NoRequest
  /\ outcome = NoOutcome
  /\ debug = FALSE
  /\ plugins_enabled = TRUE
  /\ plugins = <<>>
  /\ middleware = <<>>
  /\ NoConnection
  /\ Created
  /\ NewLimiter
  /\ NewDepends
  /\ NoTransport
  /\ ComponentsIdle

NextOverlap ==
  \/ \E name \in PluginNames : Assembling /\ RegisterPlugin(name)
  \/ \E t \in {"startup", "shutdown"}, h \in HandlerNames : Assembling /\ OnEvent(t, h)
  \/ Assembling /\ SetLifespanManager
  \/ \E c \in Callers, what \in {"startup", "shutdown"} : EnterCall(c, what)
  \/ \E c \in Callers : RunAwaited(c)
  \/ \E c \in Callers : ReturnCall(c)

SpecOverlap == InitOverlap /\ [][NextOverlap]_vars

\* ------------------------------------------------- serving and lifecycle
\* Application() with its router set: startup() and shutdown() are called
\* between exchanges, in any order and any number of times
InitServing ==
  /\ routes = AppRouter.routes
  /\ method_routes = AppRouter.method_routes
  /\ request = NoRequest
  /\ outcome = NoOutcome
  /\ debug = FALSE
  /\ plugins_enabled = FALSE
  /\ plugins = <<>>
  /\ middleware = <<>>
  /\ NoConnection
  /\ Created
  /\ NewLimiter
  /\ NewDepends
  /\ NoTransport
  /\ ComponentsIdle

ServingHandlerInputs == {Returns(TRUE), Raises(Forbidden(<<>>))} \cup {Raises(e) : e \in OtherErrors}

NextServing ==
  \/ SetLifespanManager
  \/ \E failing \in SUBSET {lifespan} : pc = "idle" /\ Startup(failing)
  \/ \E failing \in SUBSET {lifespan} : pc = "idle" /\ Shutdown(failing)
  \/ \E r \in AppRequests : Connect(r.method, r.path)
  \/ \E bytes \in Bodies, h \in ServingHandlerInputs : Dispatch(bytes, h)
  \/ \E ok \in BOOLEAN : EmitStart(ok)
  \/ \E ok \in BOOLEAN : EmitBody(ok)
  \/ \E ok \in BOOLEAN : ErrorStart(ok)
  \/ \E ok \in BOOLEAN : ErrorBody(ok)
  \/ Finish

SpecServing == InitServing /\ [][NextServing]_vars

\* ------------------------------------------------------------- rate limiter
Limits == {RateLimit(n, w) : n \in 1..MaxRequests, w \in 1..MaxWindow}

Keys == {"k1", "k2"}

\* self.requests[key] of a defaultdict(list)
Recorded(reqs, key) == IF key \in DOMAIN reqs THEN reqs[key] ELSE <<>>

\* Variant of is_allowed that prunes the list of every key.
is_allowed_sweep(reqs, key, limit, t) ==
  LET pruned == [k \in DOMAIN reqs \cup {key} |->
                   SelectSeq(Recorded(reqs, k), LAMBDA ts : t - ts < limit.window)]
  IN IF Len(pruned[key]) >= limit.requests
     THEN [requests |-> pruned, allowed |-> FALSE]
     ELSE [requests |-> [pruned EXCEPT ![key] = Append(@, t)], allowed |-> TRUE]

\* Variant of is_allowed that keeps a timestamp exactly one window old.
is_allowed_inclusive(reqs, key, limit, t) ==
  LET kept == SelectSeq(Recorded(reqs, key), LAMBDA ts : t - ts <= limit.window)
  IN IF Len(kept) >= limit.requests
     THEN [requests |-> (key :> kept) @@ reqs, allowed |-> FALSE]
     ELSE [requests |-> (key :> Append(kept, t)) @@ reqs, allowed |-> TRUE]

\* RateLimiter.is_allowed at time t: the key's list is pruned to the
\* timestamps less than a window old, then the call is refused, or recorded
\* and admitted
is_allowed(reqs, key, limit, t) ==
  LET kept == SelectSeq(Recorded(reqs, key), LAMBDA ts : t - ts < limit.window)
  IN IF Len(kept) >= limit.requests
     THEN [requests |-> (key :> kept) @@ reqs, allowed |-> FALSE]
     ELSE [requests |-> (key :> Append(kept, t)) @@ reqs, allowed |-> TRUE]

\* RateLimiter() on its own
InitLimiter ==
  /\ routes = <<>>
  /\ method_routes = <<>>
  /\ request = NoRequest
  /\ outcome = NoOutcome
  /\ debug = FALSE
  /\ plugins_enabled = FALSE
  /\ plugins = <<>>
  /\ middleware = <<>>
  /\ NoConnection
  /\ Created
  /\ NewLimiter
  /\ NewDepends
  /\ NoTransport
  /\ ComponentsIdle

\* time passes
Tick ==
  /\ now < MaxTime
  /\ now' = now + 1
  /\ UNCHANGED <<depVars, bodyVars, componentVars, routerVars, request, outcome, appVars, requests, calls>>

\* await limiter.is_allowed(key, limit); one limiter is used with one limit
IsAllowed(key, limit) ==
  /\ Len(calls) < MaxCalls
  /\ calls # <<>> => limit = calls[1].limit
  /\ LET res == is_allowed(requests, key, limit, now)
     IN /\ requests' = res.requests
        /\ calls' = Append(calls, [key |-> key, limit |-> limit, ts |-> now,
                                   allowed |-> res.allowed])
  /\ UNCHANGED <<depVars, bodyVars, componentVars, routerVars, request, outcome, appVars, now>>

NextLimiter ==
  \/ Tick
  \/ \E key \in Keys, limit \in Limits : IsAllowed(key, limit)

SpecLimiter == InitLimiter /\ [][NextLimiter]_vars

\* one limiter shared by routes with different limits: a strict one and a
\* generous one
SharedLimits == {RateLimit(1, MaxWindow), RateLimit(MaxRequests, 1)}

\* await limiter.is_allowed(key, limit), whatever limit the earlier calls used
IsAllowedShared(key, limit) ==
  /\ Len(calls) < MaxCalls
  /\ LET res == is_allowed(requests, key, limit, now)
     IN /\ requests' = res.requests
        /\ calls' = Append(calls, [key |-> key, limit |-> limit, ts |-> now,
                                   allowed |-> res.allowed])
  /\ UNCHANGED <<depVars, bodyVars, componentVars, routerVars, request, outcome, appVars, now>>

NextShared ==
  \/ Tick
  \/ \E key \in Keys, limit \in SharedLimits : IsAllowedShared(key, limit)

SpecShared == InitLimiter /\ [][NextShared]_vars

\* Concurrent request tasks inside is_allowed, on one event loop.
MaxTasks == 2

Tasks == 1..MaxTasks

InCall == DOMAIN tasks

\* Variant of MayRun for a limiter called from threads: a task runs whenever
\* the scheduler picks it.
MayRun_preemptive(t) == TRUE

\* is_allowed is a coroutine without an await in its body: once a task is
\* inside it, the event loop runs no other task until it returns
MayRun(t) == InCall \subseteq {t}

InitTasks ==
  /\ routes = <<>>
  /\ method_routes = <<>>
  /\ request = NoRequest
  /\ outcome = NoOutcome
  /\ debug = FALSE
  /\ plugins_enabled = FALSE
  /\ plugins = <<>>
  /\ middleware = <<>>
  /\ Created
  /\ NewLimiter
  /\ NewDepends
  /\ NoConnection
  /\ NoTransport
  /\ ComponentsIdle

\* now = time.time(); self.requests[key] = [ts for ts in ... if now - ts < limit.window]
Prune(t, key, limit) ==
  /\ t \notin InCall
  /\ MayRun(t)
  /\ Len(calls) + Cardinality(InCall) < MaxCalls
  /\ \A i \in DOMAIN calls : calls[i].limit = limit
  /\ \A u \in InCall : tasks[u].limit = limit
  /\ requests' = [k \in DOMAIN requests \cup {key} |->
                    IF k = key
                    THEN SelectSeq(Recorded(requests, key), LAMBDA ts : now - ts < limit.window)
                    ELSE requests[k]]
  /\ tasks' = [u \in InCall \cup {t} |->
                 IF u = t THEN [pc |-> "pruned", key |-> key, limit |-> limit, now |-> now]
                 ELSE tasks[u]]
  /\ UNCHANGED <<depVars, bodyVars, poolVars, socketVars, headerVars, corsVars, readerVars, overlapVars, loopVars, routerVars, request, outcome, appVars, now, calls>>

\* if len(self.requests[key]) >= limit.requests: return False
Check(t) ==
  /\ t \in InCall
  /\ MayRun(t)
  /\ tasks[t].pc = "pruned"
  /\ IF Len(requests[tasks[t].key]) >= tasks[t].limit.requests
     THEN /\ calls' = Append(calls, [key |-> tasks[t].key, limit |-> tasks[t].limit,
                                     ts |-> tasks[t].now, allowed |-> FALSE])
          /\ tasks' = [u \in InCall \ {t} |-> tasks[u]]
     ELSE /\ tasks' = [tasks EXCEPT ![t].pc = "admitted"]
          /\ UNCHANGED calls
  /\ UNCHANGED <<depVars, bodyVars, poolVars, socketVars, headerVars, corsVars, readerVars, overlapVars, loopVars, routerVars, request, outcome, appVars, now, requests>>

\* self.requests[key].append(now); return True
Record(t) ==
  /\ t \in InCall
  /\ MayRun(t)
  /\ tasks[t].pc = "admitted"
  /\ requests' = [requests EXCEPT ![tasks[t].key] = Append(@, tasks[t].now)]
  /\ calls' = Append(calls, [key |-> tasks[t].key, limit |-> tasks[t].limit,
                             ts |-> tasks[t].now, allowed |-> TRUE])
  /\ tasks' = [u \in InCall \ {t} |-> tasks[u]]
  /\ UNCHANGED <<depVars, bodyVars, poolVars, socketVars, headerVars, corsVars, readerVars, overlapVars, loopVars, routerVars, request, outcome, appVars, now>>

\* the clock runs on whatever the tasks do
TickTasks ==
  /\ now < MaxTime
  /\ now' = now + 1
  /\ UNCHANGED <<depVars, bodyVars, componentVars, routerVars, request, outcome, appVars, requests, calls>>

NextTasks ==
  \/ TickTasks
  \/ \E t \in Tasks, key \in Keys, limit \in Limits : Prune(t, key, limit)
  \/ \E t \in Tasks : Check(t)
  \/ \E t \in Tasks : Record(t)

SpecTasks == InitTasks /\ [][NextTasks]_vars

\* ------------------------------------------------- guarded routes, Depends
ping == <<"p", "i", "n", "g">>

\* a router with a rate-limited route and a route that declares dependencies
GuardedDecls ==
  << [path |-> Path(<<Lit(ping)>>, 0), methods |-> <<"GET">>, handler |-> "ping"],
     [path |-> Path(<<Lit(items), Param("item_id")>>, 0), methods |-> <<"GET">>,
      handler |-> "get_owned"] >>

GuardedRouter == Registered(EmptyRouter, <<>>, GuardedDecls)

GuardedRequests ==
  { [method |-> "GET", path |-> Path(<<ping>>, 0)],
    [method |-> "GET", path |-> Path(<<items, <<"1", "2", "3">> >>, 0)],
    [method |-> "GET", path |-> Path(<<items, <<"0">> >>, 0)] }

InitDepends ==
  /\ routes = GuardedRouter.routes
  /\ method_routes = GuardedRouter.method_routes
  /\ request = NoRequest
  /\ outcome = NoOutcome
  /\ debug = FALSE
  /\ plugins_enabled = FALSE
  /\ plugins = <<>>
  /\ middleware = <<>>
  /\ NoConnection
  /\ Created
  /\ NewLimiter
  /\ NewDepends
  /\ NoTransport
  /\ ComponentsIdle

\* code serving the open exchange awaits a Depends object: await w(request)
Resolve(w) ==
  /\ request # NoRequest
  /\ Len(resolved) < MaxCalls
  /\ LET d == depends_call(w, request, dep_cache)
     IN /\ dep_cache' = d.caches
        /\ resolved' = resolved \o d.calls
  /\ UNCHANGED <<componentVars, bodyVars, routerVars, request, outcome, appVars, limiterVars>>

NextDepends ==
  \/ Close
  \/ \E r \in GuardedRequests, bytes \in Bodies, h \in RouterHandlerInputs :
       HandleRequest(r.method, r.path, bytes, h)
  \/ \E w \in Wrappers : Resolve(w)

SpecDepends == InitDepends /\ [][NextDepends]_vars

\* ------------------------------------------------------------ request body
Chunks == {<<>>, <<"a">>, <<"b">>}

\* the http.request messages a transport can deliver
Messages == {[body |-> c, more_body |-> m] : c \in Chunks, m \in BOOLEAN}

\* Request(scope, receive) on its own
InitBody ==
  /\ routes = <<>>
  /\ method_routes = <<>>
  /\ request = NoRequest
  /\ outcome = NoOutcome
  /\ debug = FALSE
  /\ plugins_enabled = FALSE
  /\ plugins = <<>>
  /\ middleware = <<>>
  /\ NoConnection
  /\ Created
  /\ NewLimiter
  /\ NewDepends
  /\ NoTransport
  /\ ComponentsIdle

\* a connection is accepted: Request(scope, receive), with the messages its
\* receive() is going to deliver
Accept(msgs) ==
  /\ request = NoRequest
  /\ msgs # <<>>
  /\ request' = NewRequest("POST", Path(<<items>>, 0))
  /\ inbox' = msgs
  /\ received' = 0
  /\ reads' = <<>>
  /\ UNCHANGED <<componentVars, depVars, routerVars, outcome, appVars, limiterVars>>

\* await request.body()
Body ==
  /\ request # NoRequest
  /\ Len(reads) < MaxCalls
  /\ LET r == body(request, inbox, received)
     IN /\ request' = r.request
        /\ received' = r.received
        /\ reads' = Append(reads, r.value)
  /\ UNCHANGED <<componentVars, depVars, routerVars, outcome, appVars, limiterVars, inbox>>

NextBody ==
  \/ \E msgs \in SeqsUpTo(Messages, MaxChunks) : Accept(msgs)
  \/ Body
  \/ Close

SpecBody == InitBody /\ [][NextBody]_vars

\* ------------------------------------------------- overlapping body() calls
Readers == 1..MaxOverlap

\* a task calls request.body(): with _body set it returns _body as it is;
\* otherwise it sets _body to b"" and is suspended in the first receive()
CallBody(r) ==
  /\ request # NoRequest
  /\ r \notin readers
  /\ Len(reads) + Cardinality(readers) < MaxCalls
  /\ IF request.body = NoBody
     THEN /\ request' = [request EXCEPT !.body = Cached(<<>>)]
          /\ readers' = readers \cup {r}
          /\ UNCHANGED reads
     ELSE /\ reads' = Append(reads, request.body[1])
          /\ UNCHANGED <<request, readers>>
  /\ UNCHANGED <<depVars, inbox, received, poolVars, socketVars, headerVars, corsVars, taskVars, loopVars, overlapVars, routerVars, outcome, appVars, limiterVars>>

\* receive() returns to a suspended call: self._body += message body; the
\* call returns _body after a message without more_body and awaits the next
\* receive() otherwise
Deliver(r) ==
  /\ r \in readers
  /\ LET message == IF received < Len(inbox) THEN inbox[received + 1] ELSE Disconnect
     IN /\ received' = received + 1
        /\ request' = [request EXCEPT !.body = Cached(@[1] \o message.body)]
        /\ IF message.more_body
           THEN UNCHANGED <<reads, readers>>
           ELSE /\ reads' = Append(reads, request.body[1] \o message.body)
                /\ readers' = readers \ {r}
  /\ UNCHANGED <<depVars, inbox, poolVars, socketVars, headerVars, corsVars, taskVars, loopVars, overlapVars, routerVars, outcome, appVars, limiterVars>>

\* receive() raises in a suspended call (the connection broke): the call
\* raises, _body stays as far as it was read
Break(r) ==
  /\ r \in readers
  /\ readers' = readers \ {r}
  /\ UNCHANGED <<depVars, bodyVars, poolVars, socketVars, headerVars, corsVars, taskVars, loopVars, overlapVars, routerVars, request, outcome, appVars, limiterVars>>

NextReaders ==
  \/ \E msgs \in SeqsUpTo(Messages, MaxChunks) : Accept(msgs)
  \/ \E r \in Readers : CallBody(r)
  \/ \E r \in Readers : Deliver(r)
  \/ \E r \in Readers : Break(r)
  \/ readers = {} /\ Close

SpecReaders == InitBody /\ [][NextReaders]_vars

\* ------------------------------------------------------------------- CORS
MaxOrigins == 2

\* what an allow_origins list can hold
OriginEntries == {"*", "http://good.example", "http://other.example"}

\* the Origin header of a request; "" stands for a request without one (None
\* and the empty text are both false in `origin or ""` and `if origin`)
NoOrigin == ""

RequestOrigins == {NoOrigin, "http://good.example", "http://other.example", "http://evil.example"}

CORSMethods == {"GET", "POST", "OPTIONS"}

\* CORSMiddleware.__init__: allow_origins or ["*"]
CORSMiddleware(allow_origins) ==
  [made |-> TRUE, given |-> allow_origins,
   allow_origins |-> IF allow_origins = <<>> THEN <<"*">> ELSE allow_origins]

\* CORSMiddleware.__call__ once call_next has returned resp
cors_call(mw, method, origin, resp) ==
  IF method = "OPTIONS"
  THEN add_header(
         add_header(
           add_header(
             add_header(resp, "access-control-allow-origin",
                        IF "*" \in Range(mw.allow_origins) THEN "*" ELSE origin),
             "access-control-allow-methods", "GET, POST, PUT, DELETE, PATCH, OPTIONS"),
           "access-control-allow-headers", "Content-Type, Authorization"),
         "access-control-max-age", "3600")
  ELSE IF "*" \in Range(mw.allow_origins)
  THEN add_header(resp, "access-control-allow-origin", "*")
  ELSE IF origin # NoOrigin /\ origin \in Range(mw.allow_origins)
  THEN add_header(add_header(resp, "access-control-allow-origin", origin), "vary", "Origin")
  ELSE resp

\* what call_next returns to the middleware
InnerResponses ==
  {JSONResponse(Json("ok"), 200, <<>>), JSONResponse(Json("Not Found"), 404, <<>>)}

\* CORSMiddleware(allow_origins=...)
MakeCORS(allow_origins) ==
  /\ ~cors.made
  /\ cors' = CORSMiddleware(allow_origins)
  /\ UNCHANGED <<depVars, bodyVars, poolVars, socketVars, headerVars, taskVars, loopVars, overlapVars, readerVars, crossed, routerVars, limiterVars, request, outcome, appVars>>

\* await middleware(request, call_next)
Cross(method, origin, resp) ==
  /\ cors.made
  /\ crossed' = <<[method |-> method, origin |-> origin,
                   response |-> cors_call(cors, method, origin, resp)]>>
  /\ UNCHANGED <<depVars, bodyVars, poolVars, socketVars, headerVars, taskVars, loopVars, overlapVars, readerVars, cors, routerVars, limiterVars, request, outcome, appVars>>

NextCORS ==
  \/ \E allow_origins \in SeqsUpTo(OriginEntries, MaxOrigins) : MakeCORS(allow_origins)
  \/ \E method \in CORSMethods, origin \in RequestOrigins, resp \in InnerResponses :
       Cross(method, origin, resp)

SpecCORS == InitBody /\ [][NextCORS]_vars

\* ------------------------------------------------------- response headers
\* Response.headers: a new CaseInsensitiveDict made from _headers on every
\* read; its own _store holds the lower-cased copy, the dict underneath is
\* empty
Headers(resp) == [store |-> LowerKeys(resp.headers), dict |-> <<>>]

\* CaseInsensitiveDict.__setitem__
setitem(mapping, key, value) ==
  [mapping EXCEPT !.store = (LowerName(key) :> value) @@ @]

\* dict.update, which CaseInsensitiveDict does not override: the items go
\* into the dict underneath under the keys as given
update(mapping, other) == [mapping EXCEPT !.dict = other @@ @]

\* Response._prepare_headers: the pairs of _headers
prepare_headers(resp) == LowerKeys(resp.headers)

\* the headers SecurityPlugin.post_request sets
SecurityHeaders ==
  [k \in {"X-Content-Type-Options", "X-Frame-Options", "X-XSS-Protection",
          "Strict-Transport-Security", "Content-Security-Policy"} |->
     CASE k = "X-Content-Type-Options" -> "nosniff"
       [] k = "X-Frame-Options" -> "DENY"
       [] k = "X-XSS-Protection" -> "1; mode=block"
       [] k = "Strict-Transport-Security" -> "max-age=31536000; includeSubDomains"
       [] OTHER -> "default-src 'self'"]

HeaderNames == {"X-Order", "X-Frame-Options"}

HeaderValues == {"A", "DENY"}

Recorded_write(key, value) == (LowerName(key) :> value) @@ written

\* the handler returns a response
Build(resp) ==
  /\ response = NoResponse
  /\ response' = resp
  /\ UNCHANGED <<depVars, bodyVars, poolVars, socketVars, taskVars, loopVars, overlapVars, readerVars, corsVars, headerVars, routerVars, limiterVars, request, outcome, configVars, lifeVars,
                 pc, caught, thrown, chain, chunk, sent, log>>

\* response.add_header(key, value)
AddHeader(key, value) ==
  /\ response # NoResponse
  /\ sent = <<>>
  /\ response' = add_header(response, key, value)
  /\ written' = Recorded_write(key, value)
  /\ UNCHANGED <<depVars, bodyVars, poolVars, socketVars, taskVars, loopVars, overlapVars, readerVars, corsVars, view, routerVars, limiterVars, request, outcome, configVars, lifeVars,
                 pc, caught, thrown, chain, chunk, sent, log>>

\* response.headers[key] = value
SetHeader(key, value) ==
  /\ response # NoResponse
  /\ sent = <<>>
  /\ view' = setitem(Headers(response), key, value)
  /\ written' = Recorded_write(key, value)
  /\ UNCHANGED <<depVars, bodyVars, poolVars, socketVars, taskVars, loopVars, overlapVars, readerVars, corsVars, routerVars, limiterVars, request, outcome, appVars>>

\* SecurityPlugin(secure_headers=True).post_request(request, response):
\* response.headers.update({...})
SecurityPostRequest ==
  /\ response # NoResponse
  /\ sent = <<>>
  /\ view' = update(Headers(response), SecurityHeaders)
  /\ written' = LowerKeys(SecurityHeaders) @@ written
  /\ UNCHANGED <<depVars, bodyVars, poolVars, socketVars, taskVars, loopVars, overlapVars, readerVars, corsVars, routerVars, limiterVars, request, outcome, appVars>>

\* Response.__call__ sends the response-start message
EmitHeaders ==
  /\ response # NoResponse
  /\ sent = <<>>
  /\ sent' = <<[StartMessage(response) EXCEPT !.headers = prepare_headers(response)]>>
  /\ UNCHANGED <<depVars, bodyVars, poolVars, socketVars, taskVars, loopVars, overlapVars, readerVars, corsVars, headerVars, routerVars, limiterVars, request, outcome, configVars, lifeVars,
                 pc, response, caught, thrown, chain, chunk, log>>

NextHeaders ==
  \/ \E resp \in InnerResponses : Build(resp)
  \/ \E key \in HeaderNames, value \in HeaderValues : AddHeader(key, value)
  \/ \E key \in HeaderNames, value \in HeaderValues : SetHeader(key, value)
  \/ SecurityPostRequest
  \/ EmitHeaders

SpecHeaders == InitBody /\ [][NextHeaders]_vars

\* --------------------------------------------------------------- WebSocket
MaxFrames == 2

CloseCodes == {1000, 1001}

\* what receive() can return to a WebSocket
SocketMessages ==
  {[type |-> "websocket.receive", code |-> 0],
   [type |-> "websocket.connect", code |-> 0]}
  \cup {[type |-> "websocket.disconnect", code |-> c] : c \in CloseCodes}

Frame(type, code) == [type |-> type, code |-> code]

\* what an operation does: the state it leaves, the messages it sends and
\* whether it raises
Done(state, frames, raised) == [state |-> state, frames |-> frames, raised |-> raised]

\* WebSocket.accept
accept(state) ==
  IF state.connected THEN Done(state, <<>>, FALSE)
  ELSE Done([state EXCEPT !.connected = TRUE], <<Frame("websocket.accept", 0)>>, FALSE)

\* WebSocket.receive_text and receive_bytes: a disconnect marks the socket
\* closed and raises ConnectionClosed, another unexpected type raises
\* ValueError
receive_text(state, message) ==
  IF message.type = "websocket.disconnect"
  THEN Done([state EXCEPT !.closed = TRUE, !.close_code = message.code], <<>>, TRUE)
  ELSE Done(state, <<>>, message.type # "websocket.receive")

\* Variant of send_text that sends whatever the state is.
send_text_unchecked(state) == Done(state, <<Frame("websocket.send", 0)>>, FALSE)

\* WebSocket.send_text and send_bytes
send_text(state) ==
  IF state.closed THEN Done(state, <<>>, TRUE)
  ELSE Done(state, <<Frame("websocket.send", 0)>>, FALSE)

\* WebSocket.close
close(state, code) ==
  IF ~state.closed
  THEN Done([state EXCEPT !.closed = TRUE, !.close_code = code],
            <<Frame("websocket.close", code)>>, FALSE)
  ELSE Done(state, <<>>, FALSE)

Sent(type) == {i \in DOMAIN wire : wire[i].type = type}

\* one operation on the socket, with what it did
Operate(op, done) ==
  /\ websocket' = done.state
  /\ wire' = wire \o done.frames
  /\ ws_result' = [op |-> op, raised |-> done.raised]
  /\ UNCHANGED <<depVars, bodyVars, poolVars, taskVars, loopVars, overlapVars, readerVars, corsVars, headerVars, routerVars, limiterVars, request, outcome, appVars>>

SocketAccept == Operate("accept", accept(websocket))

SocketReceive(message) == Operate("receive", receive_text(websocket, message))

SocketSend ==
  /\ websocket.closed \/ Cardinality(Sent("websocket.send")) < MaxFrames
  /\ Operate("send", send_text(websocket))

SocketClose(code) == Operate("close", close(websocket, code))

NextSocket ==
  \/ SocketAccept
  \/ \E message \in SocketMessages : SocketReceive(message)
  \/ SocketSend
  \/ \E code \in CloseCodes : SocketClose(code)

SpecSocket == InitBody /\ [][NextSocket]_vars

\* ----------------------------------------------------------- WebSocketPool
Connections == {"a", "b", "c"}

Iterating == broadcast.at = "iterating"

\* the event loop runs another task: no broadcast is in its loop, or the
\* broadcast is suspended in a send
OthersRun == ~Iterating \/ broadcast.suspended

\* WebSocketPool.connect: the set gets the socket, under the lock; nothing
\* is awaited while the lock is held, so the call is one step
PoolConnect(c) ==
  /\ OthersRun
  /\ c \notin active_connections
  /\ active_connections' = active_connections \cup {c}
  /\ UNCHANGED <<depVars, bodyVars, taskVars, loopVars, overlapVars, readerVars, corsVars, headerVars, socketVars, closed_connections, broadcast, routerVars, limiterVars, request, outcome, appVars>>

\* WebSocketPool.disconnect, called by the task that owns the socket
PoolDisconnect(c) ==
  /\ OthersRun
  /\ c \in active_connections
  /\ active_connections' = active_connections \ {c}
  /\ UNCHANGED <<depVars, bodyVars, taskVars, loopVars, overlapVars, readerVars, corsVars, headerVars, socketVars, closed_connections, broadcast, routerVars, limiterVars, request, outcome, appVars>>

\* a pooled socket is closed: close() was called on it or its client left
SocketCloses(c) ==
  /\ OthersRun
  /\ c \in active_connections
  /\ c \notin closed_connections
  /\ closed_connections' = closed_connections \cup {c}
  /\ UNCHANGED <<depVars, bodyVars, taskVars, loopVars, overlapVars, readerVars, corsVars, headerVars, socketVars, active_connections, broadcast, routerVars, limiterVars, request, outcome, appVars>>

\* broadcast_text is called: `for connection in self.active_connections`
\* makes the set's iterator
StartBroadcast ==
  /\ ~Iterating
  /\ active_connections # {}
  /\ broadcast' = [at |-> "iterating", size |-> Cardinality(active_connections),
                   visited |-> {}, delivered |-> {}, pooled |-> active_connections,
                   suspended |-> FALSE]
  /\ UNCHANGED <<depVars, bodyVars, taskVars, loopVars, overlapVars, readerVars, corsVars, headerVars, socketVars, active_connections, closed_connections, routerVars, limiterVars, request, outcome, appVars>>

\* the loop asks the iterator for the next connection: a set whose size is
\* not the one the iterator began with raises RuntimeError; an exhausted
\* iterator ends the loop
BroadcastEnds ==
  /\ Iterating
  /\ \/ Cardinality(active_connections) # broadcast.size
     \/ active_connections \subseteq broadcast.visited
  /\ broadcast' = [broadcast EXCEPT !.at =
                     IF Cardinality(active_connections) # broadcast.size
                     THEN "raised" ELSE "returned",
                   !.suspended = FALSE]
  /\ UNCHANGED <<depVars, bodyVars, taskVars, loopVars, overlapVars, readerVars, corsVars, headerVars, socketVars, active_connections, closed_connections, routerVars, limiterVars, request, outcome, appVars>>

\* the iterator yields an open connection: await connection.send_text(message),
\* in which the broadcast is suspended and other tasks run
BroadcastSends(c) ==
  /\ Iterating
  /\ Cardinality(active_connections) = broadcast.size
  /\ c \in active_connections \ broadcast.visited
  /\ c \notin closed_connections
  /\ broadcast' = [broadcast EXCEPT !.visited = @ \cup {c}, !.delivered = @ \cup {c},
                                    !.suspended = TRUE]
  /\ UNCHANGED <<depVars, bodyVars, taskVars, loopVars, overlapVars, readerVars, corsVars, headerVars, socketVars, active_connections, closed_connections, routerVars, limiterVars, request, outcome, appVars>>

\* the iterator yields a closed connection: send_text raises
\* ConnectionClosed and the except clause awaits self.disconnect(connection),
\* which removes it from the set under the lock; the lock is free, so
\* nothing suspends the broadcast before the loop asks for the next connection
BroadcastDrops(c) ==
  /\ Iterating
  /\ Cardinality(active_connections) = broadcast.size
  /\ c \in active_connections \ broadcast.visited
  /\ c \in closed_connections
  /\ active_connections' = active_connections \ {c}
  /\ broadcast' = [broadcast EXCEPT !.visited = @ \cup {c}, !.suspended = FALSE]
  /\ UNCHANGED <<depVars, bodyVars, taskVars, loopVars, overlapVars, readerVars, corsVars, headerVars, socketVars, closed_connections, routerVars, limiterVars, request, outcome, appVars>>

NextPool ==
  \/ \E c \in Connections : PoolConnect(c)
  \/ \E c \in Connections : PoolDisconnect(c)
  \/ \E c \in Connections : SocketCloses(c)
  \/ StartBroadcast
  \/ BroadcastEnds
  \/ \E c \in Connections : BroadcastSends(c)
  \/ \E c \in Connections : BroadcastDrops(c)

SpecPool == InitBody /\ [][NextPool]_vars

\* ================================================================== claims
\* Vocabulary of the router claims, over the exchange the state shows.
Handled == request # NoRequest

ReqPath == Normalize(request.path)

\* route i is registered for the request's method and matches its path
Serves(i) ==
  /\ request.method \in Range(routes[i].methods)
  /\ Match(routes[i], ReqPath).matched

PathMatches(i) == Match(routes[i], ReqPath).matched

\* route i's pattern matches the path but a captured segment does not convert
ConversionFails(i) ==
  /\ RegexMatch(routes[i].regex, ReqPath)
  /\ ~Match(routes[i], ReqPath).matched

HasModelParam(h) == \E e \in Range(HandlerSig(h)) : e.type = "Item"

\* C1: of two routes that both match the request's path and method, the
\* router dispatches to the one registered first (never to the later one),
\* and the handler it calls is that route's handler.
C1_FirstRegisteredWins ==
  Handled =>
    \A i, j \in 1..Len(routes) :
      (i < j /\ Serves(i) /\ Serves(j)) =>
        /\ outcome.route \in 1..i
        /\ Serves(outcome.route)
        /\ \A k \in 1..Len(outcome.called) :
             /\ outcome.called[k].route = outcome.route
             /\ outcome.called[k].handler = routes[outcome.route].handler

C1_Witness ==
  /\ Handled
  /\ \E i, j \in 1..Len(routes) :
       /\ i < j /\ Serves(i) /\ Serves(j)
       /\ routes[i].handler # routes[j].handler
       /\ outcome.route = i
       /\ outcome.called # <<>>
       /\ outcome.called[1].handler = routes[i].handler

\* C2: a path matched by some route, requested with a method that none of
\* the routes matching the path is registered for, gets 405 with an Allow
\* header equal to the union of the methods of the routes matching the path.
C2_MethodNotAllowed ==
  (/\ Handled
   /\ \E i \in 1..Len(routes) : PathMatches(i)
   /\ \A i \in 1..Len(routes) : ~Serves(i)) =>
     /\ ~outcome.raised
     /\ outcome.response.status_code = 405
     /\ "allow" \in DOMAIN outcome.response.headers
     /\ outcome.response.headers["allow"] =
          UNION {Range(routes[i].methods) : i \in {j \in 1..Len(routes) : PathMatches(j)}}

\* C3: a path that no registered route matches gets 404 and no handler is
\* invoked.
C3_NotFound ==
  (Handled /\ \A i \in 1..Len(routes) : ~PathMatches(i)) =>
     /\ ~outcome.raised
     /\ outcome.response.status_code = 404
     /\ outcome.called = <<>>

C3_Witness ==
  /\ Handled
  /\ \E i \in 1..Len(routes) : request.method \in Range(routes[i].methods)
  /\ \A i \in 1..Len(routes) : ~PathMatches(i)
  /\ outcome.response.status_code = 404

\* C4: a route whose pattern matches but whose captured segment fails its
\* converter is never dispatched to; the pass goes on to the other routes
\* (a later route serving the request is dispatched to); when no route
\* matches the outcome is 404 with no handler called; and a handler gets its
\* path parameters converted (the segment "123" of an int parameter is 123).
C4_ConversionFailureIsNoMatch ==
  Handled =>
    /\ \A i \in 1..Len(routes) : ConversionFails(i) => outcome.route # i
    /\ (\E i \in 1..Len(routes) : Serves(i)) => (outcome.route # 0 /\ Serves(outcome.route))
    /\ (/\ \E i \in 1..Len(routes) : ConversionFails(i)
        /\ \A i \in 1..Len(routes) : ~PathMatches(i)) =>
          /\ ~outcome.raised
          /\ outcome.response.status_code = 404
          /\ outcome.called = <<>>
    /\ \A k \in 1..Len(outcome.called) :
         LET r == routes[outcome.called[k].route]
             captured == GroupDict(r.regex, ReqPath)
         IN \A n \in DOMAIN captured :
              /\ n \in DOMAIN outcome.called[k].kwargs
              /\ outcome.called[k].kwargs[n].t = r.converters[n]
              /\ (r.converters[n] = "int" /\ captured[n] = <<"1", "2", "3">>) =>
                   outcome.called[k].kwargs[n].v = <<123>>

C4_Witness ==
  /\ Handled
  /\ \E i, j \in 1..Len(routes) :
       /\ i < j
       /\ ConversionFails(i)
       /\ request.method \in Range(routes[i].methods)
       /\ outcome.route = j
       /\ outcome.called # <<>>

\* C5: when the matched route's handler has a schema-model body parameter,
\* the body is read, and a body that is malformed JSON or violates the schema
\* gives 422 without the handler being invoked.
C5_InvalidBodyIs422 ==
  (/\ Handled
   /\ outcome.route # 0
   /\ HasModelParam(routes[outcome.route].handler)) =>
     /\ request.body # NoBody
     /\ request.body # Cached("item_json") =>
          /\ ~outcome.raised
          /\ outcome.response.status_code = 422
          /\ outcome.called = <<>>

C5_Witness ==
  /\ Handled
  /\ outcome.route # 0
  /\ HasModelParam(routes[outcome.route].handler)
  /\ request.body = Cached("not_json")
  /\ outcome.response.status_code = 422
  /\ outcome.called = <<>>

\* Vocabulary of the application claims, over the open connection.
Starts == {i \in 1..Len(sent) : sent[i].type = "http.response.start"}

Bodies_sent == {i \in 1..Len(sent) : sent[i].type = "http.response.body"}

SendFailed == \E i \in 1..Len(log) : log[i].ev = "send_failed"

\* the middleware that were called, in call order
MwCalled == SelectSeq(log, LAMBDA e : e.ev = "mw_in")

\* handle_request returned the router's response after running the whole
\* middleware loop with no middleware raising
ChainCompleted ==
  /\ pc \notin {"idle", "pre", "dispatch", "middleware"}
  /\ ~outcome.raised
  /\ \A i \in 1..Len(log) : log[i].ev # "mw_raised"

\* C6: when the handler or a middleware raises a recognised HTTP error, the
\* emitted response carries that error's status code, headers and detail.
C6_HTTPErrorPreserved ==
  (pc = "done" /\ thrown.http /\ ~SendFailed) =>
     /\ Len(sent) = 2
     /\ sent[1].type = "http.response.start"
     /\ sent[1].status = thrown.status_code
     /\ \A k \in DOMAIN thrown.headers :
          /\ LowerName(k) \in DOMAIN sent[1].headers
          /\ sent[1].headers[LowerName(k)] = thrown.headers[k]
     /\ sent[2].type = "http.response.body"
     /\ sent[2].body.error = thrown.detail

\* C7: an exception that is not an HTTP error kind, raised by the handler or
\* by a middleware, is answered with status 500 and nothing else; without the
\* debug flag the body's error text is the fixed "Internal Server Error",
\* never the exception's message.
C7_InternalErrorRedacted ==
  (thrown.cls # "" /\ ~thrown.http) =>
     /\ pc \in {"error_start", "error_body", "done", "escaped"}
     /\ \A i \in Starts : sent[i].status = 500
     /\ \A i \in Bodies_sent :
          sent[i].body.error = (IF debug THEN Str(thrown) ELSE "Internal Server Error")
     /\ pc = "done" => (Len(sent) = 2 /\ Starts = {1} /\ Bodies_sent = {2})

C7_Witness ==
  /\ pc = "done"
  /\ thrown.cls = "RuntimeError"
  /\ ~debug
  /\ Len(sent) = 2
  /\ sent[1].status = 500
  /\ sent[2].body.error = "Internal Server Error"
  /\ Str(thrown) # "Internal Server Error"

\* C8: no exception leaves _handle_http: it always returns normally, and it
\* returns after a complete response was emitted.
C8_NoEscape ==
  /\ pc # "escaped"
  /\ pc = "done" =>
       /\ Starts # {}
       /\ sent[Len(sent)].type = "http.response.body"
       /\ ~sent[Len(sent)].more_body

\* C9: at most one response-start message is sent on a connection and it
\* precedes every response-body message.
C9_OneShot ==
  /\ Cardinality(Starts) <= 1
  /\ \A i \in Bodies_sent : \E j \in Starts : j < i

\* C10: the middleware are called in reverse registration order, each at most
\* once; when the whole loop has run, each was called exactly once and the
\* X-Order header lists the markers in call order, so A registered before B
\* gives "B,A"; that header is the one emitted.
C10_ReverseOrder ==
  /\ Len(MwCalled) <= Len(middleware)
  /\ \A i \in 1..Len(MwCalled) : MwCalled[i].who = middleware[Len(middleware) + 1 - i]
  /\ (ChainCompleted /\ middleware # <<>>) =>
        /\ Len(MwCalled) = Len(middleware)
        /\ "x-order" \in DOMAIN response.headers
        /\ Len(response.headers["x-order"]) = Len(middleware)
        /\ \A i \in 1..Len(middleware) :
             response.headers["x-order"][i] = middleware[Len(middleware) + 1 - i]
        /\ \A i \in Starts :
             sent[i].status # 500 => sent[i].headers["x-order"] = response.headers["x-order"]

C10_Witness ==
  /\ pc = "done"
  /\ middleware = <<"A", "B">>
  /\ ChainCompleted
  /\ Starts = {1}
  /\ sent[1].headers["x-order"] = <<"B", "A">>

\* Vocabulary of the middleware and plugin claims.
\* the positions in the log of the event ev of who
Pos(ev, who) == {p \in 1..Len(log) : log[p] = Event(ev, who)}

MwRaised == \E i \in 1..Len(log) : log[i].ev = "mw_raised"

\* the plugins whose hook ran, in the order the hooks ran
HookRuns(hook) ==
  LET evs == SelectSeq(log, LAMBDA e : e.ev = hook)
  IN [i \in 1..Len(evs) |-> evs[i].who]

\* some plugin's hook raised (the manager logs it right after the hook ran)
HookFailed(hook) ==
  \E i \in 1..Len(log) - 1 : log[i].ev = hook /\ log[i + 1].ev = "swallowed"

ErrorPath == pc \in {"error_start", "error_body", "done", "escaped"}

\* C11: of two middleware, the one registered first starts before the one
\* registered later starts, and finishes after the later one has finished
\* (stated for the requests on which no middleware raises).
C11_FirstIsOutermost ==
  \A i, j \in 1..Len(middleware) :
    (i < j /\ middleware[i] # middleware[j] /\ ~MwRaised) =>
      /\ \A q \in Pos("mw_in", middleware[j]) :
           \E p \in Pos("mw_in", middleware[i]) : p < q
      /\ \A p \in Pos("mw_out", middleware[i]) :
           \A q \in Pos("mw_out", middleware[j]) : q < p

\* C12 as stated: when a middleware raises, no further middleware is
\* invoked and the request ends as a 500 response.
C12_MiddlewareFailureIs500 ==
  MwRaised =>
    /\ chain = <<>>
    /\ \A i, j \in 1..Len(log) :
         (log[i].ev = "mw_raised" /\ i < j) => log[j].ev \notin {"mw_in", "mw_out"}
    /\ \A i \in Starts : sent[i].status = 500

\* C12: when a middleware raises, no further middleware is invoked; an
\* exception that is not an HTTP error kind ends the request as a 500
\* response, and an HTTP error kind ends it as that error's own response.
C12_MiddlewareFailureAborts ==
  MwRaised =>
    /\ chain = <<>>
    /\ \A i, j \in 1..Len(log) :
         (log[i].ev = "mw_raised" /\ i < j) => log[j].ev \notin {"mw_in", "mw_out"}
    /\ ~thrown.http =>
         /\ ErrorPath
         /\ \A i \in Starts : sent[i].status = 500
         /\ pc = "done" => (Len(sent) = 2 /\ Starts = {1})
    /\ thrown.http =>
         /\ response.status_code = thrown.status_code
         /\ response.content.v.error = thrown.detail
         /\ (pc = "done" /\ ~SendFailed) =>
              (Len(sent) = 2 /\ Starts = {1} /\ sent[1].status = thrown.status_code)

C12_Witness ==
  /\ pc = "done"
  /\ middleware = <<"A", "B">>
  /\ MwRaised
  /\ thrown.cls = "RuntimeError"
  /\ Len(MwCalled) = 1
  /\ MwCalled[1].who = "B"
  /\ Len(sent) = 2
  /\ sent[1].status = 500

\* C13: when a pre-request hook has raised, the router is not dispatched, no
\* handler is invoked and the response the client gets is a 500.
C13_PreHookAborts ==
  HookFailed("pre_request") =>
    /\ outcome = NoOutcome
    /\ pc = "done" => (Starts # {} /\ \A i \in Starts : sent[i].status = 500)

\* C14: when a post-request hook has raised, the post-request hooks of all
\* plugins have run, in registration order, and the response handle_request
\* returned is the one that goes out: emission starts from it and, unless
\* emission itself fails, completes with its status and headers.
C14_PostHookIsolation ==
  HookFailed("post_request") =>
    /\ HookRuns("post_request") = plugins
    /\ pc \in {"emit_start", "emit_body", "emit_chunk", "error_start", "error_body",
               "done", "escaped"}
    /\ caught = NoException =>
         /\ pc \in {"emit_start", "emit_body", "emit_chunk", "done"}
         /\ sent # <<>> => sent[1] = StartMessage(response)
         /\ pc = "done" => (Len(sent) >= 2 /\ Starts = {1})

C14_Witness ==
  /\ pc = "done"
  /\ plugins = <<"P", "Q">>
  /\ Pos("swallowed", "P") # {}
  /\ Pos("swallowed", "Q") = {}
  /\ HookRuns("post_request") = <<"P", "Q">>
  /\ HookFailed("post_request")
  /\ ~HookFailed("pre_request")
  /\ caught = NoException
  /\ sent[1].status = 200

\* C15: with plugins enabled, a request that has been answered ran every
\* plugin's pre_request hook once and every plugin's post_request hook once,
\* and the response the post hooks saw is the one whose status was emitted.
C15_HooksRunOnce ==
  (plugins_enabled /\ pc = "done") =>
    /\ HookRuns("pre_request") = plugins
    /\ HookRuns("post_request") = plugins
    /\ (HookRuns("post_request") # <<>> /\ ~SendFailed) =>
         \A i \in Starts : sent[i].status = response.status_code

\* Vocabulary of the lifecycle claims: the log shows the last call.
LastCall(what) == log # <<>> /\ log[1] = Event("call", what)

Ended(how) == log # <<>> /\ log[Len(log)].ev = how

NoOpCall(what) == <<Event("call", what), Event("returned", what)>>

\* the place of a startup event in the startup sequence
Stage(ev) ==
  CASE ev = "call" -> 0
    [] ev \in {"startup_handler", "failed"} -> 1
    [] ev \in {"on_startup", "swallowed"} -> 2
    [] ev = "aenter" -> 3
    [] OTHER -> 4

\* C16: a startup() call made once startup has completed runs nothing and
\* changes nothing, the call that completed startup having run each startup
\* handler once; the same for shutdown().
C16_RepeatIsNoOp ==
  [][/\ (startup_complete /\ log' # log /\ LastCall("startup")') =>
          (log' = NoOpCall("startup") /\ UNCHANGED lifeVars)
     /\ (~startup_complete /\ startup_complete') =>
          HookRuns("startup_handler")' = startup_handlers
     /\ (shutdown_complete /\ log' # log /\ LastCall("shutdown")') =>
          (log' = NoOpCall("shutdown") /\ UNCHANGED lifeVars)
     /\ (~shutdown_complete /\ shutdown_complete') =>
          HookRuns("shutdown_handler")' = shutdown_handlers]_vars

C16_Witness ==
  /\ startup_complete
  /\ Len(startup_handlers) = 2
  /\ log = NoOpCall("startup")

\* C17: a startup() call runs the startup handlers in registration order,
\* then the plugins' startup hooks, then the resource manager's enter; when
\* a handler raises nothing runs after it, the call raises and the
\* application is not marked started; a call that returns has run them all
\* and marked the application started.
C17_StartupSequence ==
  LastCall("startup") =>
    /\ \A i, j \in 1..Len(log) - 1 : i < j => Stage(log[i].ev) <= Stage(log[j].ev)
    /\ \A i \in 1..Len(HookRuns("startup_handler")) :
         /\ i <= Len(startup_handlers)
         /\ HookRuns("startup_handler")[i] = startup_handlers[i]
    /\ (\E i \in 1..Len(log) : log[i].ev = "failed") =>
         /\ log[Len(log) - 1].ev = "failed"
         /\ HookRuns("on_startup") = <<>>
         /\ Pos("aenter", lifespan) = {}
         /\ Ended("raised")
    /\ Ended("raised") => ~startup_complete
    /\ Ended("returned") => startup_complete
    /\ (Ended("returned") /\ log # NoOpCall("startup")) =>
         /\ HookRuns("startup_handler") = startup_handlers
         /\ plugins_enabled => HookRuns("on_startup") = plugins
         /\ lifespan_manager => Pos("aenter", lifespan) # {}

C17_Witness ==
  /\ LastCall("startup")
  /\ startup_handlers = <<"h1", "h2">>
  /\ plugins = <<"P">>
  /\ lifespan_manager
  /\ log = <<Event("call", "startup"), Event("startup_handler", "h1"),
             Event("failed", "h1"), Event("raised", "startup")>>
  /\ ~startup_complete

\* C18: when a plugin's startup hook raises, no later plugin's startup hook
\* runs, the startup() call raises and the application is not marked started.
C18_PluginStartupFatal ==
  (LastCall("startup") /\ HookFailed("on_startup")) =>
    /\ Ended("raised")
    /\ ~startup_complete
    /\ \A i, j \in 1..Len(log) :
         (log[i].ev = "swallowed" /\ i < j) => log[j].ev # "on_startup"

\* C19: a shutdown() call never raises and leaves the application marked
\* stopped; unless it was a repeated call, every shutdown handler, every
\* plugin's shutdown hook and the resource manager's exit have run,
\* whichever of them raised.
C19_ShutdownBestEffort ==
  LastCall("shutdown") =>
    /\ Ended("returned")
    /\ shutdown_complete
    /\ log # NoOpCall("shutdown") =>
         /\ HookRuns("shutdown_handler") = shutdown_handlers
         /\ plugins_enabled => HookRuns("on_shutdown") = plugins
         /\ lifespan_manager => Pos("aexit", lifespan) # {}

C19_Witness ==
  /\ shutdown_complete
  /\ shutdown_handlers = <<"h1", "h2">>
  /\ plugins = <<"P", "Q">>
  /\ log = <<Event("call", "shutdown"),
             Event("shutdown_handler", "h1"), Event("swallowed", "h1"),
             Event("shutdown_handler", "h2"),
             Event("on_shutdown", "P"), Event("swallowed", "P"),
             Event("on_shutdown", "Q"),
             Event("aexit", lifespan), Event("swallowed", lifespan),
             Event("returned", "shutdown")>>

\* Vocabulary of the rate limiter claim, over the calls made so far.
CallsOf(k) == {i \in 1..Len(calls) : calls[i].key = k}

AdmittedOf(k) == {i \in CallsOf(k) : calls[i].allowed}

\* the admitted calls of the key of call i, made before i and less than a
\* window before it
Recent(i) ==
  {j \in AdmittedOf(calls[i].key) :
     j < i /\ calls[i].ts - calls[j].ts < calls[i].limit.window}

\* C20: with N requests per window W, a call is admitted exactly when fewer
\* than N calls of its key were admitted less than W before it (so N rapid
\* calls are admitted, the next one is refused, and a call W after the
\* admitted ones is admitted again); of one key, no more than N admitted
\* calls lie within a span shorter than W; and the key's list holds the
\* admitted calls alone, those less than W older than the key's last call.
C20_SlidingWindow ==
  /\ \A i \in 1..Len(calls) :
       calls[i].allowed <=> Cardinality(Recent(i)) < calls[i].limit.requests
  /\ \A k \in Keys : \A a, b \in AdmittedOf(k) :
       (a <= b /\ calls[b].ts - calls[a].ts < calls[b].limit.window) =>
         Cardinality({j \in AdmittedOf(k) : a <= j /\ j <= b}) <= calls[b].limit.requests
  /\ DOMAIN requests = {k \in Keys : CallsOf(k) # {}}
  /\ \A k \in DOMAIN requests :
       LET last == CHOOSE i \in CallsOf(k) : \A j \in CallsOf(k) : j <= i
           held == SelectSeq(calls, LAMBDA c :
                     /\ c.key = k
                     /\ c.allowed
                     /\ calls[last].ts - c.ts < c.limit.window)
       IN requests[k] = [i \in 1..Len(held) |-> held[i].ts]

C20_Witness ==
  /\ Len(calls) = 4
  /\ \A i \in 1..4 : calls[i].key = "k1" /\ calls[i].limit = RateLimit(2, 1)
  /\ \A i \in 1..3 : calls[i].ts = 0
  /\ calls[4].ts = 1
  /\ calls[1].allowed /\ calls[2].allowed /\ ~calls[3].allowed /\ calls[4].allowed
  /\ requests["k1"] = <<1>>

\* Vocabulary of the dependency claims.
Invocations(f) == {i \in DOMAIN resolved : resolved[i].invoked /\ resolved[i].dependency = f}

MatchedRoute == routes[outcome.route]

HandlerCalled == request # NoRequest /\ outcome.called # <<>>

\* C21: whenever handle_request has invoked the handler of a route that
\* declares a rate limit, the rate limiter was consulted first and has
\* recorded the attempt.
C21_RateLimitConsulted ==
  (HandlerCalled /\ MatchedRoute.rate_limit # NoRateLimit) => requests # <<>>

\* C22: within one request no dependency callable is invoked more than once,
\* whichever Depends objects it is reached through.
C22_ResolvedOncePerRequest ==
  \A w \in Wrappers : Cardinality(Invocations(Dependency(w))) <= 1

\* C23: a value a Depends call returns was computed from the request it is
\* returned to, never from another one.
C23_CachePerRequest ==
  \A i \in DOMAIN resolved :
    "request" \in DOMAIN resolved[i].value.kwargs
      => resolved[i].value.kwargs["request"] = RequestRef(request)

\* C24: when handle_request invokes a handler, every dependency the route
\* declares has been resolved for the request, and every handler parameter
\* whose default is a Depends object is passed the value resolved for it.
C24_DependenciesPassed ==
  HandlerCalled =>
    LET call == outcome.called[1]
        defaults == Defaults(MatchedRoute.handler)
    IN /\ \A w \in Range(MatchedRoute.dependencies) :
            \E i \in DOMAIN resolved : resolved[i].wrapper = w
       /\ \A n \in DOMAIN defaults :
            /\ n \in DOMAIN call.kwargs
            /\ \E i \in DOMAIN resolved :
                 resolved[i].wrapper = defaults[n] /\ resolved[i].value = call.kwargs[n]

\* Vocabulary of the body claim: the position of the first message without
\* more_body (one past the end when the transport delivers none), and the
\* bodies of the first k messages joined.
FirstFinal(msgs) ==
  IF \E k \in DOMAIN msgs : ~msgs[k].more_body
  THEN CHOOSE k \in DOMAIN msgs : ~msgs[k].more_body /\ \A j \in 1..(k - 1) : msgs[j].more_body
  ELSE Len(msgs) + 1

RECURSIVE Joined(_, _)
Joined(msgs, k) ==
  IF k = 0 THEN <<>>
  ELSE Joined(msgs, k - 1) \o (IF k <= Len(msgs) THEN msgs[k].body ELSE <<>>)

\* C25: once body() has been called, receive() has been called exactly up to
\* the first message without more_body, however many body() calls were made,
\* and every call returned the bodies of those messages joined in order,
\* which is what the request caches.
C25_BodyReadOnce ==
  (request # NoRequest /\ reads # <<>>) =>
    /\ received = FirstFinal(inbox)
    /\ request.body = Cached(Joined(inbox, FirstFinal(inbox)))
    /\ \A i \in DOMAIN reads : reads[i] = Joined(inbox, FirstFinal(inbox))

\* two body() calls on a body of two chunks: two receive() calls in all
C25_Witness ==
  /\ Len(reads) >= 2
  /\ inbox = <<[body |-> <<"a">>, more_body |-> TRUE], [body |-> <<"b">>, more_body |-> FALSE]>>
  /\ reads[2] = <<"a", "b">>
  /\ received = 2

\* Vocabulary of the ordering claim.
Dispatched == outcome # NoOutcome

PreRuns == HookRuns("pre_request")

PostRuns == HookRuns("post_request")

\* C26: in an exchange, pre-request hooks run only before the router is
\* dispatched and all of them do when plugins are enabled; the router is
\* dispatched, and the handler called, before any middleware; middleware run
\* only on a response the router returned and before any post-request hook;
\* the post-request hooks all run after the middleware loop and before
\* anything is sent; nothing of this runs once a message was sent; the first
\* message sent is a response-start and a response-body follows one.
C26_PhaseOrder ==
  [][pc' # "idle" =>
       /\ Len(PreRuns') > Len(PreRuns) =>
            /\ PreRuns' = plugins
            /\ ~Dispatched' /\ MwCalled' = <<>> /\ PostRuns' = <<>> /\ sent' = <<>>
       /\ (~Dispatched /\ Dispatched') =>
            /\ plugins_enabled => PreRuns = plugins
            /\ MwCalled' = <<>> /\ PostRuns' = <<>> /\ sent' = <<>>
       /\ Len(MwCalled') > Len(MwCalled) =>
            /\ Dispatched /\ ~outcome.raised
            /\ PostRuns' = <<>> /\ sent' = <<>>
       /\ Len(PostRuns') > Len(PostRuns) =>
            /\ Dispatched /\ chain = <<>>
            /\ PostRuns' = plugins
            /\ sent' = <<>>
       /\ Len(sent') > Len(sent) =>
            /\ Dispatched /\ chain = <<>>
            /\ PreRuns' = PreRuns /\ MwCalled' = MwCalled /\ PostRuns' = PostRuns
            /\ (pc = "emit_start" /\ plugins_enabled) => PostRuns = plugins
            /\ sent = <<>> => sent'[1].type = "http.response.start"
            /\ sent'[Len(sent')].type = "http.response.body" => Starts # {}
  ]_vars

\* an exchange that went through every phase: two plugins, the handler, two
\* middleware, and the two messages of the response
C26_Witness ==
  /\ pc = "done"
  /\ Len(plugins) = 2 /\ PreRuns = plugins /\ PostRuns = plugins
  /\ outcome.called # <<>>
  /\ Len(MwCalled) = 2
  /\ Len(sent) = 2 /\ sent[1].type = "http.response.start"
  /\ sent[2].type = "http.response.body"
  /\ \A p \in 1..Len(log), q \in 1..Len(log) :
       /\ (log[p].ev = "pre_request" /\ log[q].ev = "mw_in") => p < q
       /\ (log[p].ev = "mw_out" /\ log[q].ev = "post_request") => p < q

\* C27 as stated: the router is dispatched only between a completed
\* startup() and the first shutdown().
C27_ServedOnlyWhileStarted ==
  Dispatched => (startup_complete /\ ~shutdown_complete)

\* C27: the lifecycle marks are never cleared, an exchange leaves them as
\* they are, and a request is accepted in whatever lifecycle state the
\* application is in.
C27_ServedInAnyState ==
  [][/\ startup_complete => startup_complete'
     /\ shutdown_complete => shutdown_complete'
     /\ (pc # "idle" \/ pc' # "idle") => UNCHANGED <<startup_complete, shutdown_complete>>
     /\ pc = "idle" => \A r \in AppRequests : ENABLED Connect(r.method, r.path)
  ]_vars

\* a handler was called for a request that came after shutdown(), on an
\* application that was never started
C27_Witness ==
  /\ Dispatched /\ outcome.called # <<>>
  /\ shutdown_complete /\ ~startup_complete

\* C28: in a shutdown() call the resource manager is exited before any
\* plugin's shutdown hook runs, and every plugin's shutdown hook runs before
\* any shutdown handler.
C28_ShutdownMirrorsStartup ==
  LastCall("shutdown") =>
    \A i, j \in 1..Len(log) :
      /\ (log[i].ev = "aexit" /\ log[j].ev \in {"on_shutdown", "shutdown_handler"}) => i < j
      /\ (log[i].ev = "on_shutdown" /\ log[j].ev = "shutdown_handler") => i < j

\* Vocabulary of the index claims: the methods in use, a method's entry in
\* the index (a defaultdict: no key reads as the empty list), and the
\* positions of the routes whose methods contain m, in registration order.
MethodsInUse == DOMAIN method_routes \cup UNION {Range(routes[i].methods) : i \in DOMAIN routes}

Entry(m) == IF m \in DOMAIN method_routes THEN method_routes[m] ELSE <<>>

Projection(m) ==
  SelectSeq([i \in 1..Len(routes) |-> i], LAMBDA i : m \in Range(routes[i].methods))

\* C29: for every method the index entry is the list of the routes whose
\* methods contain it, in registration order, each once.
C29_IndexIsProjection ==
  \A m \in MethodsInUse : Entry(m) = Projection(m)

\* C30: a handle_request call leaves the route list, with every route's
\* methods, pattern and converters, and the method index, with its keys, as
\* they were.
C30_RouterUnchanged ==
  [][(request = NoRequest /\ request' # NoRequest) =>
       /\ routes' = routes
       /\ method_routes' = method_routes
       /\ DOMAIN method_routes' = DOMAIN method_routes]_vars

\* a request whose method has no registered route was handled by a router
\* that has routes for two other methods
C30_Witness ==
  /\ request # NoRequest
  /\ request.method = "DELETE"
  /\ DOMAIN method_routes = {"GET", "POST"}
  /\ outcome.response.status_code \in {404, 405}

\* Vocabulary of the limiter's frame claims: the call a step has just made.
Called == Len(calls') > Len(calls)

TheCall == calls'[Len(calls')]

\* C31 as stated: right after a call the key's list holds no timestamp a
\* window old or older and no more than limit.requests entries, and the
\* lists of the other keys are as they were.
C31_ListBounded ==
  [][Called =>
       /\ \A i \in DOMAIN requests'[TheCall.key] :
            TheCall.ts - requests'[TheCall.key][i] < TheCall.limit.window
       /\ Len(requests'[TheCall.key]) <= TheCall.limit.requests
       /\ \A k \in Keys \ {TheCall.key} : Recorded(requests', k) = Recorded(requests, k)
  ]_vars

\* C31: right after a call the key's list holds no timestamp a window old
\* or older; it holds no more than limit.requests entries when the call was
\* admitted, and otherwise no more than it held before; the lists of the
\* other keys are as they were.
C31_ListPruned ==
  [][Called =>
       /\ \A i \in DOMAIN requests'[TheCall.key] :
            TheCall.ts - requests'[TheCall.key][i] < TheCall.limit.window
       /\ TheCall.allowed => Len(requests'[TheCall.key]) <= TheCall.limit.requests
       /\ ~TheCall.allowed => Len(requests'[TheCall.key]) <= Len(Recorded(requests, TheCall.key))
       /\ \A k \in Keys \ {TheCall.key} : Recorded(requests', k) = Recorded(requests, k)
  ]_vars

\* a call with the strict limit was refused on a list the generous limit
\* had filled, with another key's list in place
C31_Witness ==
  /\ calls # <<>>
  /\ ~calls[Len(calls)].allowed
  /\ calls[Len(calls)].key = "k1"
  /\ Len(Recorded(requests, "k1")) > calls[Len(calls)].limit.requests
  /\ Recorded(requests, "k2") # <<>>

\* how often timestamp ts stands in the list of key k
Occurrences(k, ts) ==
  Cardinality({i \in DOMAIN Recorded(requests, k) : Recorded(requests, k)[i] = ts})

\* no call of key k, returned or under way, has pruned timestamp ts
Unpruned(k, ts) ==
  /\ \A j \in CallsOf(k) : calls[j].ts - ts < calls[j].limit.window
  /\ \A u \in InCall : tasks[u].key = k => tasks[u].now - ts < tasks[u].limit.window

\* C32: however the request tasks calling is_allowed with one key
\* interleave, the admitted calls that lie within one window are no more
\* than limit.requests, and the key's list holds one entry for every
\* admitted call whose timestamp no call has pruned.
C32_NoLostUpdate ==
  \A k \in Keys : \A b \in AdmittedOf(k) :
    /\ Cardinality({a \in AdmittedOf(k) :
                      /\ calls[a].ts <= calls[b].ts
                      /\ calls[b].ts - calls[a].ts < calls[b].limit.window})
         <= calls[b].limit.requests
    /\ Unpruned(k, calls[b].ts) =>
         Occurrences(k, calls[b].ts) =
           Cardinality({a \in AdmittedOf(k) : calls[a].ts = calls[b].ts})

\* limit.requests calls of one key were admitted at one time, a further one
\* was refused, and another task has entered is_allowed with the same key
C32_Witness ==
  /\ \E b \in AdmittedOf("k1") :
       /\ Cardinality({a \in AdmittedOf("k1") : calls[a].ts = calls[b].ts}) = MaxRequests
       /\ calls[b].limit.requests = MaxRequests
       /\ \E r \in CallsOf("k1") : ~calls[r].allowed /\ calls[r].ts = calls[b].ts
  /\ \E u \in InCall : tasks[u].key = "k1" /\ tasks[u].pc = "pruned"

\* Vocabulary of the lifespan claim.
Replies(i) == exchanges[i].replies

StartupBefore(i) == \E j \in 1..(i - 1) : exchanges[j].message = "lifespan.startup"

\* C33: every lifespan.startup message gets one reply, startup.complete or
\* startup.failed; with startup.failed the loop has ended and no shutdown
\* has run; every lifespan.shutdown message gets one shutdown reply and the
\* loop has ended; and a shutdown message that no startup message preceded
\* has run the shutdown handlers, the plugins' shutdown hooks and the
\* resource manager's exit.
C33_LifespanReplies ==
  \A i \in 1..Len(exchanges) :
    /\ exchanges[i].message = "lifespan.startup" =>
         /\ Len(Replies(i)) = 1
         /\ Replies(i)[1] \in {"lifespan.startup.complete", "lifespan.startup.failed"}
         /\ Replies(i)[1] = "lifespan.startup.failed" =>
              /\ i = Len(exchanges)
              /\ loop = "ended"
              /\ ~shutdown_complete
              /\ LastCall("startup")
    /\ exchanges[i].message = "lifespan.shutdown" =>
         /\ Len(Replies(i)) = 1
         /\ Replies(i)[1] \in {"lifespan.shutdown.complete", "lifespan.shutdown.failed"}
         /\ i = Len(exchanges)
         /\ loop = "ended"
         /\ ~StartupBefore(i) =>
              /\ LastCall("shutdown")
              /\ HookRuns("shutdown_handler") = shutdown_handlers
              /\ plugins_enabled => HookRuns("on_shutdown") = plugins
              /\ lifespan_manager => Pos("aexit", lifespan) # {}

\* a shutdown message was the first thing the loop received, on an
\* application with two shutdown handlers, a plugin and a resource manager
C33_Witness ==
  /\ loop = "ended"
  /\ exchanges = <<[message |-> "lifespan.other", replies |-> <<>>],
                   [message |-> "lifespan.shutdown",
                    replies |-> <<"lifespan.shutdown.complete">>]>>
  /\ Len(shutdown_handlers) = 2
  /\ plugins # <<>>
  /\ lifespan_manager

\* how often event e stands in sequence evs
Count(evs, e) == Cardinality({i \in DOMAIN evs : evs[i] = e})

\* C34: when startup() calls overlap, no startup handler and no plugin's
\* startup hook has run more often than it is registered; the same for
\* overlapping shutdown() calls.
C34_OverlapRunsOnce ==
  \A what \in {"startup", "shutdown"} : \A i \in DOMAIN Awaited(what) :
    Count(ran, Awaited(what)[i]) <= Count(Awaited(what), Awaited(what)[i])

\* C35: every body() call that has returned has returned the whole body,
\* the bodies of the messages up to the first one without more_body joined
\* in order, also when it was made while an earlier call was suspended in
\* receive() or after an earlier call raised midway.
C35_CompleteBody ==
  request # NoRequest =>
    \A i \in DOMAIN reads : reads[i] = Joined(inbox, FirstFinal(inbox))

\* C36: once a response has begun to be emitted, every registered middleware
\* has been called for the request exactly as often as it is registered,
\* whatever the response is: the handler's, a 404, 405 or 422, or the
\* response built from an HTTP error the handler raised.
C36_ThroughEveryMiddleware ==
  Starts # {} =>
    \A i \in DOMAIN middleware :
      Count(log, Event("mw_in", middleware[i])) = Count(middleware, middleware[i])

\* Vocabulary of the CORS claim.
AllowOrigin == "access-control-allow-origin"

\* C37: with a CORSMiddleware given an allow_origins list without "*", the
\* allow-origin header on a response it returned is an origin of that list,
\* whatever the request method, and a request whose Origin is not in the
\* list gets no allow-origin header that names its origin.
C37_AllowOriginFromList ==
  (cors.made /\ "*" \notin Range(cors.given) /\ crossed # <<>>) =>
    LET headers == crossed[1].response.headers
    IN AllowOrigin \in DOMAIN headers =>
         /\ headers[AllowOrigin] \in Range(cors.given)
         /\ crossed[1].origin \notin Range(cors.given) =>
              headers[AllowOrigin] # crossed[1].origin

\* C38: the response-start message carries every header written to the
\* response before it was sent, with the value written last: the security
\* headers SecurityPlugin's post_request hook set, and what was written
\* through add_header or through the headers mapping.
C38_WrittenHeadersEmitted ==
  sent # <<>> =>
    \A k \in DOMAIN written :
      k \in DOMAIN sent[1].headers /\ sent[1].headers[k] = written[k]

\* C39: whatever operations are made on a WebSocket, one after the other,
\* it sends no more than one websocket.accept and no more than one
\* websocket.close message; an operation on a closed socket (closed by
\* close() or by a disconnect received) sends no websocket.send message,
\* and a send on it raises.
C39_SocketProtocol ==
  [][/\ Cardinality({i \in DOMAIN wire' : wire'[i].type = "websocket.accept"}) <= 1
     /\ Cardinality({i \in DOMAIN wire' : wire'[i].type = "websocket.close"}) <= 1
     /\ websocket.closed =>
          /\ \A i \in DOMAIN wire' : i > Len(wire) => wire'[i].type # "websocket.send"
          /\ (ws_result' # ws_result /\ ws_result'.op = "send") => ws_result'.raised
  ]_vars

\* a socket accepted, used and closed, on which a further send has raised
C39_Witness ==
  /\ websocket.closed
  /\ Sent("websocket.accept") # {}
  /\ Sent("websocket.send") # {}
  /\ Sent("websocket.close") # {}
  /\ ws_result = [op |-> "send", raised |-> TRUE]

\* C40: the pool's set is not changed while a broadcast is iterating over
\* it, and a broadcast ends without an error, with the closed connections
\* it met removed and the message delivered to every connection that was
\* pooled and open from its beginning to its end.
C40_BroadcastSafe ==
  [][/\ Iterating => active_connections' = active_connections
     /\ broadcast'.at # "raised"
     /\ (Iterating /\ broadcast'.at = "returned") =>
          /\ broadcast.visited \cap closed_connections \cap active_connections = {}
          /\ (broadcast.pooled \cap active_connections) \ closed_connections
               \subseteq broadcast.delivered
  ]_vars

====
